---- MODULE Spec2Model ----
(***************************************************************************)
(* A model of recall_core's two stores.                                    *)
(*                                                                         *)
(* ConversationStore (src/src/recall_core/storage/conversation.py): the    *)
(* SQLite metadata index, the sharded tree of JSON content files, and the  *)
(* coroutines save / get / delete / mark_indexed, cut at every await and   *)
(* at every file-system call their worker threads make.                    *)
(*                                                                         *)
(* VectorStore (src/src/recall_core/storage/vector.py): the documents      *)
(* table of the embedding engine, a bag of rows, and the calls add /       *)
(* add_batch / get / delete / count / close, each run to completion.       *)
(***************************************************************************)
EXTENDS Integers, Sequences, FiniteSets, Bags, TLC

\* ------------------------------------------------------------------ bounds

\* Timestamps are the integers 1..MaxTime.
MaxTime == 2

\* The number of callers that may have a coroutine in flight at once.
NumCallers == 2

Times == 1..MaxTime
Callers == 1..NumCallers

\* ------------------------------------------------------------ basic values

\* Optional values (T | None): <<>> is None, <<v>> is v.
None == <<>>
Some(v) == <<v>>

\* A Python str is a sequence of characters; each character is a TLA+ string.
Chr(n) == CASE n = 0 -> "0" [] n = 1 -> "1" [] n = 2 -> "2" [] n = 3 -> "3"
            [] n = 4 -> "4" [] n = 5 -> "5" [] n = 6 -> "6" [] n = 7 -> "7"
            [] n = 8 -> "8" [] OTHER -> "9"

\* datetime.isoformat(): the text form of a timestamp.
IsoFormat(t) == <<"2", "0", "2", "4", "-", "0", "1", "-", "0", Chr(t), "T">>

\* datetime parsing (pydantic's validation of a datetime field from JSON).
ParseDatetime(s) == CHOOSE t \in 0..9 : IsoFormat(t) = s

\* Python values of type Any, as they occur in Conversation.extra and in
\* Message.tool_calls: tagged tuples.
PyStr(s) == <<"str", s>>
PyInt(n) == <<"int", n>>
PyList(xs) == <<"list", xs>>
PyTuple(xs) == <<"tuple", xs>>
PyDatetime(t) == <<"datetime", t>>
PyDict(kvs) == <<"dict", kvs>>

\* JSON values, as written to and read from a content file.
JStr(s) == <<"jstr", s>>
JNum(n) == <<"jnum", n>>
JArr(xs) == <<"jarr", xs>>
JObj(kvs) == <<"jobj", kvs>>
JNull == <<"jnull">>

\* Serialisation of a value of type Any (pydantic infers the serialiser from
\* the run-time type): list and tuple both become a JSON array, a datetime
\* becomes its ISO string.
RECURSIVE ToJson(_)
ToJson(v) ==
    CASE v[1] = "str" -> JStr(v[2])
      [] v[1] = "int" -> JNum(v[2])
      [] v[1] = "datetime" -> JStr(IsoFormat(v[2]))
      [] v[1] = "list" -> JArr([i \in 1..Len(v[2]) |-> ToJson(v[2][i])])
      [] v[1] = "tuple" -> JArr([i \in 1..Len(v[2]) |-> ToJson(v[2][i])])
      [] v[1] = "dict" ->
            JObj([i \in 1..Len(v[2]) |-> <<v[2][i][1], ToJson(v[2][i][2])>>])

\* Validation of a JSON value against the type Any: every JSON value maps to
\* the plain Python value json.loads gives.
RECURSIVE FromJson(_)
FromJson(j) ==
    CASE j[1] = "jstr" -> PyStr(j[2])
      [] j[1] = "jnum" -> PyInt(j[2])
      [] j[1] = "jarr" -> PyList([i \in 1..Len(j[2]) |-> FromJson(j[2][i])])
      [] j[1] = "jobj" ->
            PyDict([i \in 1..Len(j[2]) |-> <<j[2][i][1], FromJson(j[2][i][2])>>])

OptStrToJson(o) == IF o = None THEN JNull ELSE JStr(o[1])
OptTimeToJson(o) == IF o = None THEN JNull ELSE JStr(IsoFormat(o[1]))
OptStrFromJson(j) == IF j = JNull THEN None ELSE Some(j[2])
OptTimeFromJson(j) == IF j = JNull THEN None ELSE Some(ParseDatetime(j[2]))

\* Message.model_dump_json / model_validate_json.
MessageToJson(m) ==
    [role |-> JStr(m.role),
     content |-> JStr(m.content),
     timestamp |-> OptTimeToJson(m.timestamp),
     tool_calls |-> [i \in 1..Len(m.tool_calls) |-> ToJson(m.tool_calls[i])]]

MessageFromJson(j) ==
    [role |-> j.role[2],
     content |-> j.content[2],
     timestamp |-> OptTimeFromJson(j.timestamp),
     tool_calls |-> [i \in 1..Len(j.tool_calls) |-> FromJson(j.tool_calls[i])]]

\* Conversation.model_dump_json(indent=2): the JSON document of a record.
ModelDumpJson(c) ==
    [id |-> JStr(c.id),
     source |-> JStr(c.source),
     project_path |-> OptStrToJson(c.project_path),
     created_at |-> JStr(IsoFormat(c.created_at)),
     updated_at |-> JStr(IsoFormat(c.updated_at)),
     messages |-> [i \in 1..Len(c.messages) |-> MessageToJson(c.messages[i])],
     indexed_at |-> OptTimeToJson(c.indexed_at),
     title |-> OptStrToJson(c.title),
     extra |-> ToJson(c.extra)]

\* Conversation.model_validate_json(content) of a complete document.
ModelValidateJson(j) ==
    [id |-> j.id[2],
     source |-> j.source[2],
     project_path |-> OptStrFromJson(j.project_path),
     created_at |-> ParseDatetime(j.created_at[2]),
     updated_at |-> ParseDatetime(j.updated_at[2]),
     messages |-> [i \in 1..Len(j.messages) |-> MessageFromJson(j.messages[i])],
     indexed_at |-> OptTimeFromJson(j.indexed_at),
     title |-> OptStrFromJson(j.title),
     extra |-> FromJson(j.extra)]

\* ------------------------------------------------------------ sample data

\* Conversation ids: two of three characters that share their first two,
\* and one shorter than two.
MainId == <<"a", "b", "1">>
OtherId == <<"x">>
ThirdId == <<"a", "b", "2">>
Ids == {MainId, OtherId, ThirdId}

\* Ids with separators: "./q" and ".//q", and "ab/c".
DotId == <<".", "/", "q">>
DotSlashId == <<".", "/", "/", "q">>
NestedId == <<"a", "b", "/", "c">>
PathIds == {DotId, DotSlashId, NestedId}
AllIds == Ids \cup PathIds

UserMessage == [role |-> <<"user">>, content |-> <<"H", "i">>,
                timestamp |-> None, tool_calls |-> <<>>]

ToolMessage == [role |-> <<"assistant">>, content |-> <<"O", "k">>,
                timestamp |-> Some(1),
                tool_calls |-> << PyDict(<< <<"name", PyStr(<<"r">>)>>,
                                            <<"args", PyList(<<PyInt(1)>>)>> >>) >>]

\* A record with every optional field absent.
BareConversation(id) ==
    [id |-> id, source |-> <<"t">>, project_path |-> None,
     created_at |-> 1, updated_at |-> 1, messages |-> <<>>,
     indexed_at |-> None, title |-> None, extra |-> PyDict(<<>>)]

\* A record with every field set; its payloads hold JSON-native values only.
FullConversation(id) ==
    [id |-> id, source |-> <<"c", "c">>, project_path |-> Some(<<"/", "p">>),
     created_at |-> 1, updated_at |-> 2, messages |-> <<UserMessage, ToolMessage>>,
     indexed_at |-> Some(2), title |-> Some(<<"T">>),
     extra |-> PyDict(<< <<"k", PyList(<<PyStr(<<"v">>), PyInt(1)>>)>> >>)]

\* A record whose extra mapping holds a tuple and a datetime.
TupleConversation(id) ==
    [id |-> id, source |-> <<"t">>, project_path |-> Some(<<"/", "q">>),
     created_at |-> 2, updated_at |-> 2, messages |-> <<UserMessage>>,
     indexed_at |-> None, title |-> None,
     extra |-> PyDict(<< <<"k", PyTuple(<<PyInt(1), PyInt(2)>>)>>,
                         <<"at", PyDatetime(1)>> >>)]

\* A record that was updated before it was created: the model type accepts
\* it.
BackdatedConversation(id) ==
    [BareConversation(id) EXCEPT !.created_at = 2, !.updated_at = 1]

\* The records callers pass to save.
Conversations ==
    UNION { {BareConversation(id), FullConversation(id), TupleConversation(id)} :
            id \in Ids }

\* The records callers pass to save for an id.
ConversationsOf(id) == {c \in Conversations : c.id = id}

\* Whether a value of type Any is JSON-native: built from str, int, list and
\* dict only.
RECURSIVE JsonNative(_)
JsonNative(v) ==
    CASE v[1] \in {"str", "int"} -> TRUE
      [] v[1] \in {"tuple", "datetime"} -> FALSE
      [] v[1] = "list" -> \A i \in 1..Len(v[2]) : JsonNative(v[2][i])
      [] v[1] = "dict" -> \A i \in 1..Len(v[2]) : JsonNative(v[2][i][2])

JsonNativeConversation(c) ==
    /\ JsonNative(c.extra)
    /\ \A i \in 1..Len(c.messages) :
          \A k \in 1..Len(c.messages[i].tool_calls) :
              JsonNative(c.messages[i].tool_calls[k])

\* ------------------------------------------------------------ file system

\* The components of a path segment as pathlib parses it: the text between
\* the separators, without the empty components and the "." components.
\* (A segment that begins with "/" is absolute and replaces what is before
\* it; there is none among the ids here.)
RECURSIVE Split(_, _)
Split(rest, component) ==
    IF rest = <<>> THEN <<component>>
    ELSE IF Head(rest) = "/" THEN <<component>> \o Split(Tail(rest), <<>>)
    ELSE Split(Tail(rest), Append(component, Head(rest)))

IsComponent(component) == component # <<>> /\ component # <<".">>

Parts(segment) == SelectSeq(Split(segment, <<>>), IsComponent)

\* ConversationStore._conversation_path: conversations_dir / shard /
\* f"{id}.json", the shard being the first two characters of the id, "00" for
\* a shorter id. The path is given by the directories below conversations/
\* and by the stem and the suffix of its last component.
ConversationPath(id) ==
    LET shard == IF Len(id) >= 2 THEN SubSeq(id, 1, 2) ELSE <<"0", "0">>
        parts == Parts(shard) \o Parts(id \o <<".", "j", "s", "o", "n">>)
        name == parts[Len(parts)]
    IN  [parent |-> SubSeq(parts, 1, Len(parts) - 1),
         stem |-> IF Len(name) > 5 THEN SubSeq(name, 1, Len(name) - 5) ELSE name,
         suffix |-> IF Len(name) > 5 THEN ".json" ELSE ""]

\* Path.with_suffix
WithSuffix(path, suffix) == [path EXCEPT !.suffix = suffix]

\* save's temp_path
TempPath(id) == WithSuffix(ConversationPath(id), ".tmp")

\* The text of a document, as the two chunks write_text hands to the file.
Text(j) == << <<"head", j>>, <<"tail", j>> >>

\* A chunk of zero bytes (a hole left by a write beyond the end of a file).
Hole == <<"hole">>

\* Whether a file's content is the complete text of one document.
IsDocument(content) ==
    /\ Len(content) = 2
    /\ Len(content[1]) = 2 /\ content[1][1] = "head"
    /\ Len(content[2]) = 2 /\ content[2][1] = "tail"
    /\ content[1][2] = content[2][2]

\* The document a complete file holds.
Document(content) == content[1][2]

\* A file-system write of chunk number n of text at offset n - 1: the file
\* grows (with holes) as needed.
WriteChunk(content, n, text) ==
    [i \in 1..(IF Len(content) > n THEN Len(content) ELSE n) |->
        IF i = n THEN text[n] ELSE IF i <= Len(content) THEN content[i] ELSE Hole]

\* Removing a directory entry.
Unlink(fs, path) == [q \in (DOMAIN fs) \ {path} |-> fs[q]]

\* Creating or replacing a directory entry.
Link(fs, path, content) ==
    [q \in (DOMAIN fs) \cup {path} |-> IF q = path THEN content ELSE fs[q]]

\* os.rename(src, dst) for an existing src: dst is replaced atomically.
Rename(fs, src, dst) == Link(Unlink(fs, src), dst, fs[src])

\* --------------------------------------------------------- metadata index

\* The row save writes for a conversation (the VALUES tuple).
Row(c) ==
    [id |-> c.id,
     source |-> c.source,
     project_path |-> c.project_path,
     created_at |-> IsoFormat(c.created_at),
     updated_at |-> IsoFormat(c.updated_at),
     indexed_at |-> IF c.indexed_at = None THEN None
                    ELSE Some(IsoFormat(c.indexed_at[1])),
     title |-> c.title,
     message_count |-> Len(c.messages)]

\* INSERT OR REPLACE INTO conversations: id is the primary key.
InsertOrReplace(rows, row) == {r \in rows : r.id # row.id} \cup {row}

\* A DELETE that matches no row.
DeleteNothing(rows, id) == rows

\* DELETE FROM conversations WHERE id = ?
DeleteWhereId(rows, id) == {r \in rows : r.id # id}

\* UPDATE conversations SET indexed_at = ? WHERE id = ?
UpdateIndexedAt(rows, id, iso) ==
    {IF r.id = id THEN [r EXCEPT !.indexed_at = Some(iso)] ELSE r : r \in rows}

RowsOf(rows, id) == {r \in rows : r.id = id}

\* -------------------------------------------------- _ensure_initialized

\* The most connections that are open at a time.
MaxConnections == 3

\* The connections aiosqlite.connect can return.
Handles == 1..MaxConnections

\* mkdir of the data directory and of conversations/, and the lazy connect.
RootDirs == { <<"data_dir">>, <<"data_dir", "conversations">> }

ShardDir(id) == <<"data_dir", "conversations">> \o ConversationPath(id).parent

\* ---------------------------------------------------------------- queries

\* The code point of a character, for the characters timestamps are made of.
Ord(ch) ==
    CASE ch = "-" -> 45 [] ch = "0" -> 48 [] ch = "1" -> 49 [] ch = "2" -> 50
      [] ch = "3" -> 51 [] ch = "4" -> 52 [] ch = "5" -> 53 [] ch = "6" -> 54
      [] ch = "7" -> 55 [] ch = "8" -> 56 [] ch = "9" -> 57 [] ch = "T" -> 84

\* SQLite's comparison of two TEXT values: byte by byte, a proper prefix
\* first.
TextLess(a, b) ==
    \E k \in 1..(Len(b)) :
        /\ \A i \in 1..(k - 1) : i <= Len(a) /\ a[i] = b[i]
        /\ \/ k = Len(a) + 1
           \/ k <= Len(a) /\ Ord(a[k]) < Ord(b[k])

TextLeq(a, b) == a = b \/ TextLess(a, b)

\* The orders in which a SELECT may return rows under ORDER BY: every order
\* of the rows in which no row comes before one that sorts before it (rows
\* with equal keys come in any order).
Orderings(rows, Before(_, _)) ==
    {s \in [1..Cardinality(rows) -> rows] :
        /\ \A i, j \in DOMAIN s : i # j => s[i] # s[j]
        /\ \A i, j \in DOMAIN s : i < j => ~Before(s[j], s[i])}

\* LIMIT ? OFFSET ?
Page(s, limit, offset) ==
    SubSeq(s, offset + 1, IF offset + limit < Len(s) THEN offset + limit ELSE Len(s))

IdsOf(s) == [i \in DOMAIN s |-> s[i].id]

UpdatedDesc(r1, r2) == TextLess(r2.updated_at, r1.updated_at)
CreatedDesc(r1, r2) == TextLess(r2.created_at, r1.created_at)
CreatedAsc(r1, r2) == TextLess(r1.created_at, r2.created_at)

\* list_all: SELECT id FROM conversations ORDER BY updated_at DESC
\* LIMIT ? OFFSET ?
SelectAll(rows, limit, offset) ==
    {IdsOf(Page(s, limit, offset)) : s \in Orderings(rows, UpdatedDesc)}

\* A list_by_project whose WHERE clause also takes the rows with no
\* project_path.
SelectByProjectOrNull(rows, project_path, limit, offset) ==
    {IdsOf(Page(s, limit, offset)) :
        s \in Orderings({r \in rows : r.project_path \in {None, Some(project_path)}},
                        UpdatedDesc)}

\* list_by_project: ... WHERE project_path = ? ORDER BY updated_at DESC ...
SelectByProject(rows, project_path, limit, offset) ==
    {IdsOf(Page(s, limit, offset)) :
        s \in Orderings({r \in rows : r.project_path = Some(project_path)},
                        UpdatedDesc)}

\* list_by_date_range: ... WHERE created_at >= ? AND created_at <= ?
\* [AND source = ?] ORDER BY created_at DESC LIMIT ?; the source filter is
\* added when source is truthy (neither None nor the empty string).
SelectByDateRange(rows, start, end, source, limit) ==
    {IdsOf(Page(s, limit, 0)) :
        s \in Orderings(
                {r \in rows :
                    /\ TextLeq(IsoFormat(start), r.created_at)
                    /\ TextLeq(r.created_at, IsoFormat(end))
                    /\ (source # None /\ source[1] # <<>>) => r.source = source[1]},
                CreatedDesc)}

\* list_unindexed: ... WHERE indexed_at IS NULL ORDER BY created_at ASC LIMIT ?
SelectUnindexed(rows, limit) ==
    {IdsOf(Page(s, limit, 0)) :
        s \in Orderings({r \in rows : r.indexed_at = None}, CreatedAsc)}

\* get_stats: COUNT(*), COUNT(CASE WHEN indexed_at IS NOT NULL THEN 1 END),
\* COUNT(DISTINCT project_path)
\* A get_stats whose COUNT(DISTINCT project_path) counts NULL as a value.
StatsCountingNull(rows) ==
    [total_conversations |-> Cardinality(rows),
     indexed_conversations |-> Cardinality({r \in rows : r.indexed_at # None}),
     unique_projects |-> Cardinality({r.project_path : r \in rows})]

Stats(rows) ==
    [total_conversations |-> Cardinality(rows),
     indexed_conversations |-> Cardinality({r \in rows : r.indexed_at # None}),
     unique_projects |->
        Cardinality({r.project_path : r \in {q \in rows : q.project_path # None}})]

Min(a, b) == IF a < b THEN a ELSE b

\* The default of the limit parameter of the list operations.
DefaultLimit == 100

\* ------------------------------------------------------- vector store rows

\* VectorStore.TABLE_NAME
TABLE_NAME == "documents"

\* The store's configured dimension (self._dimension).
Dimension == 2

\* The longest list of documents, and of embeddings, passed to add_batch.
MaxBatch == 2

\* The most rows the table is let grow to.
MaxRows == 4

\* Document ids and texts.
DocIds == {<<"d", "1">>, <<"d", "2">>}
Texts == {<<"o", "l", "d">>, <<"n", "e", "w">>}

\* DocumentMetadata(source="t"): every other field at its default.
DocumentMetadata ==
    [source |-> <<"t">>, project_path |-> None, conversation_id |-> None,
     chunk_index |-> 0, created_at |-> 1, extra |-> PyDict(<<>>)]

\* Document(id=id, text=text, metadata=...)
NewDocument(id, text) == [id |-> id, text |-> text, metadata |-> DocumentMetadata]

\* The documents callers write.
Documents == {NewDocument(id, text) : id \in DocIds, text \in Texts}

\* An embedding of the configured dimension whose first component is x.
Embedding(x) == [i \in 1..Dimension |-> IF i = 1 THEN x ELSE 0]
Embeddings == {Embedding(1), Embedding(2)}

\* The float32 the engine stores for a number x, for whole x below 2^25 in
\* size: exact up to 2^24, the nearest multiple of 2 (ties to a multiple of
\* 4) above.
Float32(x) ==
    LET size == IF x < 0 THEN -x ELSE x
        rounded == IF size <= 16777216 \/ size % 2 = 0 THEN size
                   ELSE IF (size + 1) % 4 = 0 THEN size + 1 ELSE size - 1
    IN IF x < 0 THEN -rounded ELSE rounded

\* Whether json.dumps accepts a value: a datetime makes it raise TypeError.
RECURSIVE JsonSerializable(_)
JsonSerializable(v) ==
    CASE v[1] \in {"str", "int"} -> TRUE
      [] v[1] = "datetime" -> FALSE
      [] v[1] \in {"list", "tuple"} -> \A i \in 1..Len(v[2]) : JsonSerializable(v[2][i])
      [] v[1] = "dict" -> \A i \in 1..Len(v[2]) : JsonSerializable(v[2][i][2])

\* json.dumps(v) of a value it accepts: list and tuple both become an array.
JsonDumps(v) == ToJson(v)

\* json.loads(j)
JsonLoads(j) == FromJson(j)

\* value or "": None and the empty string both give the empty string.
OrEmpty(o) == IF o = None THEN <<>> ELSE o[1]

\* value or None: the empty string gives None.
OrNone(s) == IF s = <<>> THEN None ELSE Some(s)

\* The dict add and add_batch build for a document and its embedding, as the
\* table's schema stores it.
DataRow(document, embedding) ==
    [id |-> document.id,
     text |-> document.text,
     vector |-> [i \in 1..Len(embedding) |-> Float32(embedding[i])],
     source |-> document.metadata.source,
     project_path |-> OrEmpty(document.metadata.project_path),
     conversation_id |-> OrEmpty(document.metadata.conversation_id),
     chunk_index |-> document.metadata.chunk_index,
     created_at |-> IsoFormat(document.metadata.created_at),
     extra |-> JsonDumps(document.metadata.extra)]

\* The Document get builds from a row.
DocumentOfRow(row) ==
    [id |-> row.id,
     text |-> row.text,
     metadata |->
        [source |-> row.source,
         project_path |-> OrNone(row.project_path),
         conversation_id |-> OrNone(row.conversation_id),
         chunk_index |-> row.chunk_index,
         created_at |-> ParseDatetime(row.created_at),
         extra |-> JsonLoads(row.extra)]]

\* The rows of a table (a bag) whose id is id.
WhereId(table, id) == [r \in {t \in BagToSet(table) : t.id = id} |-> table[r]]

\* The rows of a table whose id is not among ids.
WhereIdNotIn(table, ids) ==
    [r \in {t \in BagToSet(table) : t.id \notin ids} |-> table[r]]

\* table.delete(filter) for the filter id = <id>.
DeleteRows(table, id) == WhereIdNotIn(table, {id})

\* The quote character of the engine's filter language.
Quote == "'"

\* The string literal at the start of a text that follows an opening quote:
\* two quotes stand for one quote of the value, one quote ends the literal.
\* Some(value) when the literal ends where the text ends, None when the
\* literal is not closed or other text follows it. The values of the model
\* are made of letters, digits and quotes, so text after a literal is never
\* a well-formed continuation of the filter. v is the value read so far.
RECURSIVE ReadLiteral(_, _)
ReadLiteral(rest, v) ==
    IF rest = <<>> THEN None
    ELSE IF Head(rest) # Quote THEN ReadLiteral(Tail(rest), Append(v, Head(rest)))
    ELSE IF Len(rest) = 1 THEN Some(v)
    ELSE IF rest[2] = Quote THEN ReadLiteral(Tail(Tail(rest)), Append(v, Quote))
    ELSE None

\* f"<column> = '{value}'" as the engine reads it: Some(v) when the filter is
\* <column> = v, None when the engine rejects the filter.
EqualsFilter(value) == ReadLiteral(Append(value, Quote), <<>>)

\* The rows of a table whose conversation_id is c, and the other rows.
WhereConversation(table, c) ==
    [r \in {t \in BagToSet(table) : t.conversation_id = c} |-> table[r]]

WhereConversationNot(table, c) ==
    [r \in {t \in BagToSet(table) : t.conversation_id # c} |-> table[r]]

\* The most rows a query returns when limit() was not called, in the
\* releases of the engine that cap such a query (10 there).
QueryLimit == 2

\* len(table.search().where(filter).to_list()) for a filter that n rows
\* pass: limit() is not called, and whether the engine then returns every
\* row or caps the list is its default, which is not the same in every
\* release.
ListedCounts(n) == {n, Min(n, QueryLimit)}

\* len(table)
CountRows(table) == BagCardinality(table)

\* What merge_insert writes for the first n rows of data: the join of data
\* with the table on id yields each row of data once when no row of the
\* table has its id (when_not_matched_insert_all), and once per row of the
\* table that has its id (when_matched_update_all).
RECURSIVE SourceRows(_, _, _)
SourceRows(table, data, n) ==
    IF n = 0 THEN EmptyBag
    ELSE LET matched == CountRows(WhereId(table, data[n].id))
             copies == IF matched = 0 THEN 1 ELSE matched
         IN SourceRows(table, data, n - 1) (+) [r \in {data[n]} |-> copies]

\* Whether two rows of data match the same row of the table: the engine
\* leaves the result of such a merge undefined.
Ambiguous(table, data) ==
    \E i, j \in DOMAIN data :
        i # j /\ data[i].id = data[j].id /\ WhereId(table, data[i].id) # EmptyBag

\* table.merge_insert("id").when_matched_update_all()
\*      .when_not_matched_insert_all().execute(data): the outcomes the engine
\* can produce. The matched rows of the table are replaced by the rows of
\* data, the unmatched rows of data are inserted; data is not de-duplicated.
\* When the merge is ambiguous the engine either writes every copy or rejects
\* the merge and writes nothing.
MergeInsert(table, data) ==
    LET ids == {data[i].id : i \in DOMAIN data}
        merged == WhereIdNotIn(table, ids) (+) SourceRows(table, data, Len(data))
    IN { <<"ok", merged>> } \cup
       (IF Ambiguous(table, data) THEN { <<"raise", table>> } ELSE {})

\* ----------------------------------------------------------- vector search

\* Numbers that are not whole are pairs <<numerator, denominator>>. The
\* components of an embedding count steps whose square is 1 / Scale, so
\* that the squared distance of two embeddings is a whole number of
\* 1 / Scale.
Scale == 64

\* The bits of the significand of the floats score is computed in (53 in a
\* Python float).
Precision == 4

Less(x, y) == x[1] * y[2] < y[1] * x[2]

\* num / den rounded to the nearest whole number, a tie to the even one.
RoundHalfEven(num, den) ==
    LET q == num \div den
        r == num % den
    IN IF 2 * r < den THEN q
       ELSE IF 2 * r > den THEN q + 1
       ELSE IF q % 2 = 0 THEN q ELSE q + 1

\* The power of two at or below num / den.
RECURSIVE Exponent(_, _)
Exponent(num, den) ==
    IF num >= 2 * den THEN Exponent(num, 2 * den) + 1
    ELSE IF num < den THEN Exponent(2 * num, den) - 1
    ELSE 0

\* The float nearest to x > 0: x rounded to Precision significant bits.
Float(x) ==
    LET shift == Precision - 1 - Exponent(x[1], x[2])
    IN IF shift >= 0
       THEN <<RoundHalfEven(x[1] * 2^shift, x[2]), 2^shift>>
       ELSE <<RoundHalfEven(x[1], x[2] * 2^(-shift)) * 2^(-shift), 1>>

\* A score that grows with the distance.
ScoreGrowing(distance) == Float(<<distance[2] + distance[1], distance[2]>>)

\* score = 1.0 / (1.0 + distance): the sum is rounded, then the quotient.
Score(distance) ==
    LET sum == Float(<<distance[2] + distance[1], distance[2]>>)
    IN Float(<<sum[2], sum[1]>>)

\* The _distance the engine reports for a row: the squared Euclidean
\* distance of the query and the row's vector.
RECURSIVE SquaredL2(_, _, _)
SquaredL2(a, b, n) ==
    IF n = 0 THEN 0
    ELSE SquaredL2(a, b, n - 1) + (Float32(a[n]) - b[n]) * (Float32(a[n]) - b[n])

Distance(embedding, row) == <<SquaredL2(embedding, row.vector, Dimension), Scale>>

\* The rows of a table one by one: a row the table holds n times is there
\* n times.
Copies(table) ==
    UNION {{<<r, i>> : i \in 1..table[r]} : r \in BagToSet(table)}

\* The rows a filter lets pass, for the filter "source = '<s>'" given as
\* Some(s); every row when filter_expr is None.
Candidates(table, filter_expr) ==
    IF filter_expr = None THEN table
    ELSE [r \in {t \in BagToSet(table) : t.source = filter_expr[1]} |-> table[r]]

\* A search that returns limit candidates in any order.
Unranked(table, embedding, limit, filter_expr) ==
    {[i \in 1..Min(limit, Len(s)) |-> s[i][1]] :
        s \in Orderings(Copies(Candidates(table, filter_expr)),
                        LAMBDA a, b : FALSE)}

\* The row lists of a search that filters before it ranks. The table has no
\* vector index, so the search is exhaustive: the limit passing rows nearest
\* to the query, nearest first, rows at the same distance in any order.
Nearest(table, embedding, limit, filter_expr) ==
    {[i \in 1..Min(limit, Len(s)) |-> s[i][1]] :
        s \in Orderings(Copies(Candidates(table, filter_expr)),
                        LAMBDA a, b : Less(Distance(embedding, a[1]),
                                           Distance(embedding, b[1])))}

\* The row lists of a search that filters what it ranked: the rows that pass
\* among the limit rows nearest to the query.
PostFiltered(table, embedding, limit, filter_expr) ==
    {SelectSeq(rows, LAMBDA r : filter_expr = None \/ r.source = filter_expr[1]) :
        rows \in Nearest(table, embedding, limit, None)}

\* table.search(embedding).limit(limit)[.where(filter_expr)].to_list(): the
\* row lists the engine can return. where() is called without its prefilter
\* argument, so the engine's default decides whether the filter applies
\* before or after the ranking, and that default is not the same in every
\* release of the engine: either outcome is possible.
ToList(table, embedding, limit, filter_expr) ==
    Nearest(table, embedding, limit, filter_expr)
        \cup PostFiltered(table, embedding, limit, filter_expr)

\* The SearchResult search builds from a row of the result.
SearchResult(embedding, row) ==
    [document |-> DocumentOfRow(row),
     score |-> Score(Distance(embedding, row)),
     distance |-> Distance(embedding, row)]

\* ------------------------------------------------------------------ state

VARIABLES
    files,      \* the files that exist: path -> content (a sequence of chunks)
    dirs,       \* the directories that exist
    db,         \* self._db: None, or Some(h) for the connection h
    connections, \* the database connections that are open
    index,      \* the rows of table conversations, as the connection sees them
    committed,  \* the rows of table conversations that are committed
    proc,       \* per caller: the coroutine it runs, its position and locals
    hist,       \* per id: the last mutating call issued on it, and how it ended
    tables,     \* the vector store's directory: table name -> bag of rows
    schema,     \* table name -> the list size of the table's vector column
    conn,       \* the VectorStore's _db and _table: set (TRUE) or None (FALSE)
    last,       \* the result of the latest VectorStore call
    written,    \* per document id: the row of its latest write, None once deleted
    scope,      \* the embedding provider and the async with block over it
    settings    \* the RecallSettings object, None before it is constructed

conversationVars == <<files, dirs, db, connections, index, committed, proc, hist>>
vectorVars == <<tables, schema, conn, last, written>>
providerVars == <<scope, settings>>
vars == <<conversationVars, vectorVars, providerVars>>

\* A VectorStore with no connection (after construction and after close),
\* and one that holds its connection and its table.
Disconnected == [db |-> FALSE, table |-> FALSE]
Connected == [db |-> TRUE, table |-> TRUE]

\* No provider has been constructed and no async with block entered yet.
\* first is the length of the first embedding the provider returned, result
\* the last embed or embed_batch call made outside a block.
Outside ==
    [pc |-> "outside", provider |-> None, closed |-> FALSE, embeds |-> 0,
     error |-> None, closes |-> 0, outcome |-> None,
     model |-> None, detected |-> None, first |-> None, result |-> None]

\* What a call finds for its id when it is issued.
Snapshot(id) ==
    [file |-> IF ConversationPath(id) \in DOMAIN files
              THEN Some(files[ConversationPath(id)]) ELSE None,
     rows |-> RowsOf(index, id)]

\* The list operations, and the calls that write nothing: get, the list
\* operations and get_stats.
ListCalls == {"list_all", "list_by_project", "list_by_date_range", "list_unindexed"}

ReadOnly(call) == call[1] \in {"get", "get_stats", "close"} \cup ListCalls

\* A caller with no coroutine in flight. Beside the coroutine's locals the
\* record keeps what its save has done so far: renamed is "complete" when the
\* file it renamed into place held the whole text of its record, upserted
\* whether it has executed its INSERT OR REPLACE. A list operation keeps in
\* rows the ids its SELECT fetched and has not looked up yet, in out the
\* records it has collected.
Idle ==
    [pc |-> "idle", call |-> <<"idle">>, id |-> <<>>, conv |-> None,
     fd |-> "closed", off |-> 0, existed |-> FALSE, now |-> None,
     renamed |-> "no", upserted |-> FALSE,
     rows |-> <<>>, out |-> <<>>,
     result |-> <<"pending">>, pre |-> [file |-> None, rows |-> {}]]

\* A coroutine that has returned (or raised): its result is with the caller.
Finished(rec, result) == [rec EXCEPT !.pc = "done", !.result = result, !.fd = "closed"]

\* What hist records when the call of rec ends with result.
Outcome(rec, result) ==
    IF result[1] = "raise" THEN <<"failed", rec.call[1]>>
    ELSE IF rec.call[1] = "save" THEN <<"save", rec.call[2]>>
    ELSE <<rec.call[1]>>

HistAfter(rec, result) ==
    IF ReadOnly(rec.call) THEN hist
    ELSE [hist EXCEPT ![rec.id] = Outcome(rec, result)]

TypeOK ==
    /\ DOMAIN files \subseteq
          {ConversationPath(id) : id \in AllIds} \cup {TempPath(id) : id \in AllIds}
    /\ db \in {None} \cup {Some(h) : h \in Handles}
    /\ connections \subseteq Handles
    /\ \A r \in index \cup committed : r.id \in AllIds
    /\ \A p \in Callers : proc[p].off \in 0..2

\* The store is constructed over a data directory that is empty, or that
\* holds what an earlier run saved: here the bare record of OtherId.
Stored(convs) ==
    /\ files = [q \in {ConversationPath(c.id) : c \in convs} |->
                  Text(ModelDumpJson(CHOOSE c \in convs : ConversationPath(c.id) = q))]
    /\ dirs = IF convs = {} THEN {}
              ELSE RootDirs \cup {ShardDir(c.id) : c \in convs}
    /\ index = {Row(c) : c \in convs}
    /\ committed = index

Init ==
    /\ \E convs \in SUBSET {BareConversation(OtherId)} : Stored(convs)
    /\ db = None
    /\ connections = {}
    /\ proc = [p \in Callers |-> Idle]
    /\ hist = [id \in AllIds |-> <<"none">>]
    /\ tables = <<>>
    /\ schema = <<>>
    /\ conn = Disconnected
    /\ last = <<"none">>
    /\ written = [id \in DocIds |-> None]
    /\ scope = Outside
    /\ settings = None

\* ----------------------------------------------------------------- calls

\* The connection aiosqlite.connect returns: one that is not open yet.
NewHandle ==
    CHOOSE h \in Handles \ connections : \A g \in Handles \ connections : h <= g

\* _ensure_initialized, run without another coroutine in between: the store
\* connects when self._db is None and keeps its connection otherwise.
EnsureInitialized ==
    /\ db = None => connections # Handles
    /\ db' = IF db = None THEN Some(NewHandle) ELSE db
    /\ connections' = IF db = None THEN connections \cup {NewHandle} ELSE connections

Begin(p, call, id, conv, pc) ==
    /\ proc' = [proc EXCEPT ![p] =
                  [Idle EXCEPT !.pc = pc, !.call = call, !.id = id,
                               !.conv = conv, !.pre = Snapshot(id)]]
    /\ hist' = IF ReadOnly(call) THEN hist
               ELSE [hist EXCEPT ![id] = <<"pending", call[1]>>]
    /\ UNCHANGED <<files, dirs, db, connections, index, committed>>
    /\ UNCHANGED <<vectorVars, providerVars>>

\* await store.save(c)
CallSave(p, c) ==
    /\ proc[p].pc = "idle"
    /\ Begin(p, <<"save", c>>, c.id, Some(c), "save_begin")

\* await store.get(id)
CallGet(p, id) ==
    /\ proc[p].pc = "idle"
    /\ Begin(p, <<"get", id>>, id, None, "get_exists")

\* await store.delete(id)
CallDelete(p, id) ==
    /\ proc[p].pc = "idle"
    /\ Begin(p, <<"delete", id>>, id, None, "delete_exists")

\* await store.mark_indexed(id, indexed_at): indexed_at is None when omitted.
CallMarkIndexed(p, id, indexed_at) ==
    /\ proc[p].pc = "idle"
    /\ Begin(p, <<"mark_indexed", id, indexed_at>>, id, None, "mark_execute")

\* The caller takes the result of a finished coroutine.
Return(p) ==
    /\ proc[p].pc = "done"
    /\ proc' = [proc EXCEPT ![p] = Idle]
    /\ UNCHANGED <<files, dirs, db, connections, index, committed, hist>>
    /\ UNCHANGED <<vectorVars, providerVars>>

\* ------------------------------------------------------------------ save

\* A save that upserts and commits the row before it writes the file.
SaveStepsIndexFirst ==
    <<"save_begin", "save_execute", "save_commit",
      "save_open", "save_write", "save_rename", "save_return">>

\* The order of save's steps: the file is written and renamed, then the
\* row is upserted and committed.
SaveSteps ==
    <<"save_begin", "save_open", "save_write", "save_rename",
      "save_execute", "save_commit", "save_return">>

StepAfter(step) ==
    LET i == CHOOSE k \in 1..Len(SaveSteps) : SaveSteps[k] = step
    IN SaveSteps[i + 1]

\* Where the inode behind each open descriptor of id is after temp_path was
\* renamed onto path: the file that was at path is gone, the one that was at
\* temp_path is at path.
AfterRename(id) ==
    [q \in Callers |->
        IF ConversationPath(proc[q].id) # ConversationPath(id) THEN proc[q]
        ELSE IF proc[q].fd = "final" THEN [proc[q] EXCEPT !.fd = "orphan"]
        ELSE IF proc[q].fd = "tmp" THEN [proc[q] EXCEPT !.fd = "final"]
        ELSE proc[q]]

\* ... after path was unlinked.
AfterUnlink(id) ==
    [q \in Callers |->
        IF ConversationPath(proc[q].id) = ConversationPath(id) /\ proc[q].fd = "final"
        THEN [proc[q] EXCEPT !.fd = "orphan"] ELSE proc[q]]

\* _ensure_initialized, path.parent.mkdir(exist_ok=True), which raises when
\* the directory above is missing, and the dump of the record.
SaveBegin(p) ==
    /\ proc[p].pc = "save_begin"
    /\ EnsureInitialized
    /\ LET dir == ShardDir(proc[p].id)
           made == dirs \cup RootDirs
       IN  IF dir \in made \/ SubSeq(dir, 1, Len(dir) - 1) \in made
           THEN /\ dirs' = made \cup {dir}
                /\ proc' = [proc EXCEPT ![p].pc = StepAfter("save_begin")]
                /\ hist' = hist
           ELSE /\ dirs' = made
                /\ proc' = [proc EXCEPT ![p] =
                              Finished(@, <<"raise", "FileNotFoundError">>)]
                /\ hist' = HistAfter(proc[p], <<"raise", "FileNotFoundError">>)
    /\ UNCHANGED <<files, index, committed>>
    /\ UNCHANGED <<vectorVars, providerVars>>

\* temp_path.write_text: open(temp_path, "w") creates or truncates the file.
SaveOpen(p) ==
    /\ proc[p].pc = "save_open"
    /\ files' = Link(files, TempPath(proc[p].id), <<>>)
    /\ proc' = [proc EXCEPT ![p].pc = StepAfter("save_open"),
                            ![p].fd = "tmp", ![p].off = 0]
    /\ UNCHANGED <<dirs, db, connections, index, committed, hist>>
    /\ UNCHANGED <<vectorVars, providerVars>>

\* temp_path.write_text: one write of the next chunk through the open
\* descriptor, then close after the last one.
SaveWrite(p) ==
    /\ proc[p].pc = "save_write"
    /\ LET n == proc[p].off + 1
           text == Text(ModelDumpJson(proc[p].conv[1]))
           target == IF proc[p].fd = "tmp" THEN TempPath(proc[p].id)
                     ELSE ConversationPath(proc[p].id)
       IN /\ files' = IF proc[p].fd = "orphan" THEN files
                      ELSE Link(files, target, WriteChunk(files[target], n, text))
          /\ proc' = [proc EXCEPT
                        ![p].off = n,
                        ![p].fd = IF n = 2 THEN "closed" ELSE @,
                        ![p].pc = IF n = 2 THEN StepAfter("save_write") ELSE @]
    /\ UNCHANGED <<dirs, db, connections, index, committed, hist>>
    /\ UNCHANGED <<vectorVars, providerVars>>

\* temp_path.rename(path): FileNotFoundError when temp_path is not there.
SaveRename(p) ==
    /\ proc[p].pc = "save_rename"
    /\ LET id == proc[p].id
       IN IF TempPath(id) \in DOMAIN files
          THEN /\ files' = Rename(files, TempPath(id), ConversationPath(id))
               /\ proc' = [AfterRename(id) EXCEPT
                             ![p].pc = StepAfter("save_rename"),
                             ![p].renamed =
                                 IF files[TempPath(id)] = Text(ModelDumpJson(proc[p].conv[1]))
                                 THEN "complete" ELSE "partial"]
               /\ hist' = hist
          ELSE /\ files' = files
               /\ proc' = [proc EXCEPT ![p] =
                             Finished(@, <<"raise", "FileNotFoundError">>)]
               /\ hist' = HistAfter(proc[p], <<"raise", "FileNotFoundError">>)
    /\ UNCHANGED <<dirs, db, connections, index, committed>>
    /\ UNCHANGED <<vectorVars, providerVars>>

\* self._db.execute(INSERT OR REPLACE ...)
SaveExecute(p) ==
    /\ proc[p].pc = "save_execute"
    /\ index' = InsertOrReplace(index, Row(proc[p].conv[1]))
    /\ proc' = [proc EXCEPT ![p].pc = StepAfter("save_execute"),
                            ![p].upserted = TRUE]
    /\ UNCHANGED <<files, dirs, db, connections, committed, hist>>
    /\ UNCHANGED <<vectorVars, providerVars>>

\* self._db.commit(): whatever the connection holds becomes durable.
SaveCommit(p) ==
    /\ proc[p].pc = "save_commit"
    /\ committed' = index
    /\ proc' = [proc EXCEPT ![p].pc = StepAfter("save_commit")]
    /\ UNCHANGED <<files, dirs, db, connections, index, hist>>
    /\ UNCHANGED <<vectorVars, providerVars>>

\* save returns None (to its caller, or to mark_indexed, which returns too).
SaveReturn(p) ==
    /\ proc[p].pc = "save_return"
    /\ proc' = [proc EXCEPT ![p] = Finished(@, <<"ok">>)]
    /\ hist' = HistAfter(proc[p], <<"ok">>)
    /\ UNCHANGED <<files, dirs, db, connections, index, committed>>
    /\ UNCHANGED <<vectorVars, providerVars>>

\* ------------------------------------------------------------------- get

\* An existence test that asks the index instead of the file system.
ExistsInIndex(id) == RowsOf(index, id) # {}

\* path.exists() for the content file of id.
PathExists(id) == ConversationPath(id) \in DOMAIN files

\* An AfterGet in which mark_indexed also touches updated_at.
AfterGetTouching(rec, found) ==
    IF rec.call[1] = "get"
    THEN Finished(rec, IF found = None THEN <<"notfound">> ELSE <<"conv", found[1]>>)
    ELSE IF rec.call[1] \in ListCalls
    THEN LET out == IF found = None THEN rec.out ELSE Append(rec.out, found[1])
             rest == Tail(rec.rows)
         IN IF rest = <<>>
            THEN Finished([rec EXCEPT !.out = out, !.rows = rest], <<"list", out>>)
            ELSE [rec EXCEPT !.out = out, !.rows = rest,
                             !.id = Head(rest), !.pc = "get_exists"]
    ELSE IF found = None
    THEN Finished(rec, <<"ok">>)
    ELSE [rec EXCEPT !.conv = Some([found[1] EXCEPT !.indexed_at = rec.now,
                                                    !.updated_at = rec.now[1]]),
                     !.pc = "save_begin"]

\* What get hands back when it found nothing (found = None) or a record:
\* to the caller of get, to a list operation, which appends the record it
\* got and goes on with the next id it fetched, or to mark_indexed, which
\* sets indexed_at and saves.
AfterGet(rec, found) ==
    IF rec.call[1] = "get"
    THEN Finished(rec, IF found = None THEN <<"notfound">> ELSE <<"conv", found[1]>>)
    ELSE IF rec.call[1] \in ListCalls
    THEN LET out == IF found = None THEN rec.out ELSE Append(rec.out, found[1])
             rest == Tail(rec.rows)
         IN IF rest = <<>>
            THEN Finished([rec EXCEPT !.out = out, !.rows = rest], <<"list", out>>)
            ELSE [rec EXCEPT !.out = out, !.rows = rest,
                             !.id = Head(rest), !.pc = "get_exists"]
    ELSE IF found = None
    THEN Finished(rec, <<"ok">>)
    ELSE [rec EXCEPT !.conv = Some([found[1] EXCEPT !.indexed_at = rec.now]),
                     !.pc = "save_begin"]

\* _ensure_initialized and path.exists()
GetExists(p) ==
    /\ proc[p].pc = "get_exists"
    /\ dirs' = dirs \cup RootDirs
    /\ EnsureInitialized
    /\ IF PathExists(proc[p].id)
       THEN /\ proc' = [proc EXCEPT ![p].pc = "get_read"]
            /\ hist' = hist
       ELSE /\ proc' = [proc EXCEPT ![p] = AfterGet(@, None)]
            /\ hist' = HistAfter(proc[p], <<"ok">>)
    /\ UNCHANGED <<files, index, committed>>
    /\ UNCHANGED <<vectorVars, providerVars>>

\* path.read_text() and Conversation.model_validate_json(content)
GetRead(p) ==
    /\ proc[p].pc = "get_read"
    /\ LET path == ConversationPath(proc[p].id)
           error == IF path \notin DOMAIN files
                    THEN <<"raise", "FileNotFoundError">>
                    ELSE <<"raise", "ValidationError">>
       IN IF path \in DOMAIN files /\ IsDocument(files[path])
          THEN /\ proc' = [proc EXCEPT ![p] =
                        AfterGet(@, Some(ModelValidateJson(Document(files[path]))))]
               /\ hist' = hist
          ELSE /\ proc' = [proc EXCEPT ![p] = Finished(@, error)]
               /\ hist' = HistAfter(proc[p], error)
    /\ UNCHANGED <<files, dirs, db, connections, index, committed>>
    /\ UNCHANGED <<vectorVars, providerVars>>

\* ---------------------------------------------------------------- delete

\* _ensure_initialized and existed = path.exists()
DeleteExists(p) ==
    /\ proc[p].pc = "delete_exists"
    /\ dirs' = dirs \cup RootDirs
    /\ EnsureInitialized
    /\ LET existed == PathExists(proc[p].id)
       IN proc' = [proc EXCEPT ![p].existed = existed,
                       ![p].pc = IF existed THEN "delete_unlink" ELSE "delete_execute"]
    /\ UNCHANGED <<files, index, committed, hist>>
    /\ UNCHANGED <<vectorVars, providerVars>>

\* path.unlink(): FileNotFoundError when path is not there any more.
DeleteUnlink(p) ==
    /\ proc[p].pc = "delete_unlink"
    /\ LET path == ConversationPath(proc[p].id)
       IN IF path \in DOMAIN files
          THEN /\ files' = Unlink(files, path)
               /\ proc' = [AfterUnlink(proc[p].id) EXCEPT ![p].pc = "delete_execute"]
               /\ hist' = hist
          ELSE /\ files' = files
               /\ proc' = [proc EXCEPT ![p] =
                             Finished(@, <<"raise", "FileNotFoundError">>)]
               /\ hist' = HistAfter(proc[p], <<"raise", "FileNotFoundError">>)
    /\ UNCHANGED <<dirs, db, connections, index, committed>>
    /\ UNCHANGED <<vectorVars, providerVars>>

\* self._db.execute(DELETE FROM conversations WHERE id = ?)
DeleteExecute(p) ==
    /\ proc[p].pc = "delete_execute"
    /\ index' = DeleteWhereId(index, proc[p].id)
    /\ proc' = [proc EXCEPT ![p].pc = "delete_commit"]
    /\ UNCHANGED <<files, dirs, db, connections, committed, hist>>
    /\ UNCHANGED <<vectorVars, providerVars>>

\* self._db.commit() and return existed
DeleteCommit(p) ==
    /\ proc[p].pc = "delete_commit"
    /\ committed' = index
    /\ proc' = [proc EXCEPT ![p] = Finished(@, <<"bool", proc[p].existed>>)]
    /\ hist' = HistAfter(proc[p], <<"bool", proc[p].existed>>)
    /\ UNCHANGED <<files, dirs, db, connections, index>>
    /\ UNCHANGED <<vectorVars, providerVars>>

\* ---------------------------------------------------------- mark_indexed

\* _ensure_initialized, now = indexed_at or datetime.utcnow() (utcnow is the
\* clock's reading, any time), and the UPDATE of the row.
MarkExecute(p, utcnow) ==
    /\ proc[p].pc = "mark_execute"
    /\ dirs' = dirs \cup RootDirs
    /\ EnsureInitialized
    /\ LET arg == proc[p].call[3]
           now == IF arg = None THEN utcnow ELSE arg[1]
       IN /\ index' = UpdateIndexedAt(index, proc[p].id, IsoFormat(now))
          /\ proc' = [proc EXCEPT ![p].now = Some(now), ![p].pc = "mark_commit"]
    /\ UNCHANGED <<files, committed, hist>>
    /\ UNCHANGED <<vectorVars, providerVars>>

\* self._db.commit(); conv = await self.get(id) comes next.
MarkCommit(p) ==
    /\ proc[p].pc = "mark_commit"
    /\ committed' = index
    /\ proc' = [proc EXCEPT ![p].pc = "get_exists"]
    /\ UNCHANGED <<files, dirs, db, connections, index, hist>>
    /\ UNCHANGED <<vectorVars, providerVars>>

\* ------------------------------------------------------- list operations

\* await store.list_all(limit, offset)
CallListAll(p, limit, offset) ==
    /\ proc[p].pc = "idle"
    /\ Begin(p, <<"list_all", limit, offset>>, <<>>, None, "list_select")

\* await store.list_by_project(project_path, limit, offset)
CallListByProject(p, project_path, limit, offset) ==
    /\ proc[p].pc = "idle"
    /\ Begin(p, <<"list_by_project", project_path, limit, offset>>, <<>>, None,
             "list_select")

\* await store.list_by_date_range(start, end, source, limit): source is None
\* when omitted.
CallListByDateRange(p, start, end, source, limit) ==
    /\ proc[p].pc = "idle"
    /\ Begin(p, <<"list_by_date_range", start, end, source, limit>>, <<>>, None,
             "list_select")

\* await store.list_unindexed(limit)
CallListUnindexed(p, limit) ==
    /\ proc[p].pc = "idle"
    /\ Begin(p, <<"list_unindexed", limit>>, <<>>, None, "list_select")

\* The id lists the SELECT of a list operation can fetch from rows.
Selected(call, rows) ==
    IF call[1] = "list_all" THEN SelectAll(rows, call[2], call[3])
    ELSE IF call[1] = "list_by_project"
    THEN SelectByProject(rows, call[2], call[3], call[4])
    ELSE IF call[1] = "list_by_date_range"
    THEN SelectByDateRange(rows, call[2], call[3], call[4], call[5])
    ELSE SelectUnindexed(rows, call[2])

\* _ensure_initialized, the SELECT and fetchall; then the loop over the
\* fetched rows starts with conv = await self.get(row[0]).
ListSelect(p) ==
    /\ proc[p].pc = "list_select"
    /\ dirs' = dirs \cup RootDirs
    /\ EnsureInitialized
    /\ \E ids \in Selected(proc[p].call, index) :
          proc' = [proc EXCEPT ![p] =
                     IF ids = <<>> THEN Finished(@, <<"list", <<>>>>)
                     ELSE [@ EXCEPT !.rows = ids, !.id = Head(ids),
                                    !.pc = "get_exists"]]
    /\ UNCHANGED <<files, index, committed, hist>>
    /\ UNCHANGED <<vectorVars, providerVars>>

\* -------------------------------------------------------------- get_stats

\* await store.get_stats()
CallGetStats(p) ==
    /\ proc[p].pc = "idle"
    /\ Begin(p, <<"get_stats">>, <<>>, None, "stats_total")

\* _ensure_initialized and SELECT COUNT(*) FROM conversations
StatsTotal(p) ==
    /\ proc[p].pc = "stats_total"
    /\ dirs' = dirs \cup RootDirs
    /\ EnsureInitialized
    /\ proc' = [proc EXCEPT ![p].out = <<Stats(index).total_conversations>>,
                            ![p].pc = "stats_indexed"]
    /\ UNCHANGED <<files, index, committed, hist>>
    /\ UNCHANGED <<vectorVars, providerVars>>

\* SELECT COUNT(*) FROM conversations WHERE indexed_at IS NOT NULL
StatsIndexed(p) ==
    /\ proc[p].pc = "stats_indexed"
    /\ proc' = [proc EXCEPT ![p].out = Append(@, Stats(index).indexed_conversations),
                            ![p].pc = "stats_projects"]
    /\ UNCHANGED <<files, dirs, db, connections, index, committed, hist>>
    /\ UNCHANGED <<vectorVars, providerVars>>

\* SELECT COUNT(DISTINCT project_path) FROM conversations, and the return of
\* the three counts.
StatsProjects(p) ==
    /\ proc[p].pc = "stats_projects"
    /\ proc' = [proc EXCEPT ![p] =
                  Finished(@, <<"stats",
                                [total_conversations |-> proc[p].out[1],
                                 indexed_conversations |-> proc[p].out[2],
                                 unique_projects |-> Stats(index).unique_projects]>>)]
    /\ UNCHANGED <<files, dirs, db, connections, index, committed, hist>>
    /\ UNCHANGED <<vectorVars, providerVars>>

\* ------------------------------------------------- connecting and closing

\* The step of a call that follows its _ensure_initialized.
FirstStep(call) == IF call[1] = "save" THEN "save_begin" ELSE "get_exists"

\* await store.save(c) and await store.get(id), with the steps of their
\* _ensure_initialized followed one by one.
CallSaveConnecting(p, c) ==
    /\ proc[p].pc = "idle"
    /\ Begin(p, <<"save", c>>, c.id, Some(c), "init_check")

CallGetConnecting(p, id) ==
    /\ proc[p].pc = "idle"
    /\ Begin(p, <<"get", id>>, id, None, "init_check")

\* _ensure_initialized up to its first await: both directories are made and
\* self._db is tested; when it is None the coroutine awaits
\* aiosqlite.connect.
InitCheck(p) ==
    /\ proc[p].pc = "init_check"
    /\ dirs' = dirs \cup RootDirs
    /\ proc' = [proc EXCEPT ![p].pc = IF db = None THEN "init_connect"
                                      ELSE FirstStep(proc[p].call)]
    /\ UNCHANGED <<files, db, connections, index, committed, hist>>
    /\ UNCHANGED <<vectorVars, providerVars>>

\* self._db = await aiosqlite.connect(...): the coroutine resumes with a new
\* connection and assigns it, whatever self._db holds by then. The CREATE
\* ... IF NOT EXISTS statements and the commit that follow change no row.
InitConnect(p) ==
    /\ proc[p].pc = "init_connect"
    /\ connections # Handles
    /\ connections' = connections \cup {NewHandle}
    /\ db' = Some(NewHandle)
    /\ proc' = [proc EXCEPT ![p].pc = FirstStep(proc[p].call)]
    /\ UNCHANGED <<files, dirs, index, committed, hist>>
    /\ UNCHANGED <<vectorVars, providerVars>>

\* await store.close()
CallClose(p) ==
    /\ proc[p].pc = "idle"
    /\ Begin(p, <<"close">>, <<>>, None, "close")

\* A close that drops the reference and leaves the connection open.
CloseDroppingReference(p) ==
    /\ proc[p].pc = "close"
    /\ db' = None
    /\ proc' = [proc EXCEPT ![p] = Finished(proc[p], <<"ok">>)]
    /\ UNCHANGED <<files, dirs, connections, index, committed, hist>>
    /\ UNCHANGED <<vectorVars, providerVars>>

\* if self._db: await self._db.close(); self._db = None, run while no other
\* coroutine is in flight. Closing a connection discards what it has not
\* committed.
Close(p) ==
    /\ proc[p].pc = "close"
    /\ db' = None
    /\ connections' = IF db = None THEN connections ELSE connections \ {db[1]}
    /\ index' = IF db = None THEN index ELSE committed
    /\ proc' = [proc EXCEPT ![p] = Finished(proc[p], <<"ok">>)]
    /\ UNCHANGED <<files, dirs, committed, hist>>
    /\ UNCHANGED <<vectorVars, providerVars>>

\* ------------------------------------------------------ embedding provider

\* The providers, the most embed calls of one block, and the exceptions the
\* body raises by itself.
Providers == {"ollama", "openai", "anthropic"}
MaxEmbeds == 2
BodyErrors == {"ValueError", "CancelledError"}

\* Models of Ollama, the last one not in MODEL_DIMENSIONS.
Models == {"nomic-embed-text", "all-minilm", "unknown-model"}
DEFAULT_DIMENSION == 768

MODEL_DIMENSIONS(model) ==
    CASE model = "nomic-embed-text" -> Some(768)
      [] model = "mxbai-embed-large" -> Some(1024)
      [] model = "all-minilm" -> Some(384)
      [] model = "snowflake-arctic-embed" -> Some(1024)
      [] OTHER -> None

\* The lengths of the embeddings a server returns; the prompt "" gets [].
Lengths == {0, 384, 768}

\* How a request for an embedding fails: the connection is refused, the
\* status is an error, the answer has no "embedding", the request times out,
\* the body is not JSON; a closed client refuses to send.
Failures ==
    {"ConnectError", "HTTPStatusError", "KeyError", "TimeoutException",
     "JSONDecodeError"}

\* What a request can come to: <<"ok", n>> is an embedding of length n.
Responses(closed) ==
    IF closed THEN {<<f>> : f \in Failures \cup {"RuntimeError"}}
    ELSE {<<"ok", n>> : n \in Lengths} \cup {<<f>> : f \in Failures}

\* The exception embed raises for a failure. Ollama's except clauses turn
\* ConnectError into ProviderConnectionError and HTTPStatusError and KeyError
\* into EmbeddingError and name nothing else; OpenAI and Voyage turn every
\* Exception into EmbeddingError.
Raised(provider, failure) ==
    IF provider = "ollama"
    THEN CASE failure = "ConnectError" -> "ProviderConnectionError"
           [] failure \in {"HTTPStatusError", "KeyError"} -> "EmbeddingError"
           [] OTHER -> failure
    ELSE "EmbeddingError"

\* Whether close() closes the client of the provider: Voyage's does nothing.
ClosesClient(provider) == provider # "anthropic"

\* A _detect_dimension that keeps the length of the latest embedding.
DetectLatest(s, embedding) == [s EXCEPT !.detected = Some(embedding)]

\* _detect_dimension(embedding), the embedding given by its length.
DetectDimension(s, embedding) ==
    IF s.detected = None THEN [s EXCEPT !.detected = Some(embedding)] ELSE s

\* The dimension property: Ollama's is the detected dimension if there is
\* one, else the table's, else the default; the others fix theirs in
\* __init__, here for their default models.
dimension(s) ==
    CASE s.provider = Some("ollama") ->
            IF s.detected # None THEN s.detected[1]
            ELSE IF MODEL_DIMENSIONS(s.model[1]) # None
                 THEN MODEL_DIMENSIONS(s.model[1])[1]
                 ELSE DEFAULT_DIMENSION
      [] s.provider = Some("openai") -> 1536
      [] OTHER -> 1024

\* The provider after embed(text) got the response r.
AfterEmbed(s, r) ==
    IF r[1] = "ok"
    THEN [(IF s.provider = Some("ollama") THEN DetectDimension(s, r[2]) ELSE s)
            EXCEPT !.first = IF @ = None THEN Some(r[2]) ELSE @]
    ELSE s

\* What embed(text) gives its caller on the response r.
EmbedOutcome(s, r) ==
    IF r[1] = "ok" THEN <<"returned", r[2]>>
    ELSE <<"raised", Raised(s.provider[1], r[1])>>

\* embed_batch(texts), rs[i] the response to the request for texts[i]:
\* Ollama embeds one text after the other and the first exception ends the
\* loop; the provider and what the caller gets. OpenAI and Voyage send one
\* request, which fails as a whole.
RECURSIVE EmbedEach(_, _, _, _)
EmbedEach(s, rs, i, embeddings) ==
    IF i > Len(rs) THEN <<s, <<"returned", embeddings>>>>
    ELSE IF rs[i][1] = "ok"
         THEN EmbedEach(AfterEmbed(s, rs[i]), rs, i + 1,
                        Append(embeddings, rs[i][2]))
         ELSE <<s, EmbedOutcome(s, rs[i])>>

\* provider = OllamaProvider(model=model), OpenAIProvider(...) or
\* AnthropicProvider(...).
Construct(provider, model) ==
    /\ scope.pc \in {"outside", "left"}
    /\ (model # None) = (provider = "ollama")
    /\ scope' = [Outside EXCEPT !.provider = Some(provider), !.model = model]
    /\ UNCHANGED <<conversationVars, vectorVars, settings>>

\* await provider.embed(text) outside a block.
Embed(r) ==
    /\ scope.pc = "outside"
    /\ scope.provider # None
    /\ r \in Responses(scope.closed)
    /\ scope' = [AfterEmbed(scope, r) EXCEPT
                    !.result = Some(<<"embed", <<r>>, EmbedOutcome(scope, r)>>)]
    /\ UNCHANGED <<conversationVars, vectorVars, settings>>

\* await provider.embed_batch(texts) outside a block.
EmbedBatch(rs) ==
    /\ scope.pc = "outside"
    /\ scope.provider # None
    /\ \A i \in 1..Len(rs) : rs[i] \in Responses(scope.closed)
    /\ LET end == EmbedEach(scope, rs, 1, <<>>)
       IN  scope' = [end[1] EXCEPT
                        !.result = Some(<<"embed_batch", rs, end[2]>>)]
    /\ UNCHANGED <<conversationVars, vectorVars, settings>>

\* await provider.close() outside a block.
ProviderClose ==
    /\ scope.pc = "outside"
    /\ scope.provider # None
    /\ scope' = [scope EXCEPT !.closed = @ \/ ClosesClient(scope.provider[1])]
    /\ UNCHANGED <<conversationVars, vectorVars, settings>>

\* async with provider: __aenter__ returns self and the body starts. The
\* provider is the one constructed or used before, its client closed by the
\* block before, or a new one of the default model.
Enter(provider) ==
    /\ scope.pc \in {"outside", "left"}
    /\ scope' =
          IF scope.provider = Some(provider)
          THEN [scope EXCEPT !.pc = "body", !.embeds = 0, !.error = None,
                             !.closes = 0, !.outcome = None,
                             !.closed = \/ @
                                        \/ /\ scope.closes > 0
                                           /\ ClosesClient(provider)]
          ELSE [Outside EXCEPT
                   !.pc = "body", !.provider = Some(provider),
                   !.model = IF provider = "ollama"
                             THEN Some("nomic-embed-text") ELSE None]
    /\ UNCHANGED <<conversationVars, vectorVars, settings>>

\* await provider.embed(text) in the body returns an embedding.
EmbedReturns(r) ==
    /\ scope.pc = "body"
    /\ scope.embeds < MaxEmbeds
    /\ r \in Responses(scope.closed)
    /\ r[1] = "ok"
    /\ scope' = [AfterEmbed(scope, r) EXCEPT !.embeds = @ + 1]
    /\ UNCHANGED <<conversationVars, vectorVars, settings>>

\* await provider.embed(text) raises. The body catches the exception and
\* goes on, or the exception leaves the block.
EmbedRaises(r, caught) ==
    /\ scope.pc = "body"
    /\ scope.embeds < MaxEmbeds
    /\ r \in Responses(scope.closed)
    /\ r[1] # "ok"
    /\ scope' = IF caught THEN [scope EXCEPT !.embeds = @ + 1]
                ELSE [scope EXCEPT
                         !.pc = "exit",
                         !.error = Some(Raised(scope.provider[1], r[1]))]
    /\ UNCHANGED <<conversationVars, vectorVars, settings>>

\* The body raises by itself, or is cancelled.
BodyRaises(e) ==
    /\ scope.pc = "body"
    /\ scope' = [scope EXCEPT !.pc = "exit", !.error = Some(e)]
    /\ UNCHANGED <<conversationVars, vectorVars, settings>>

\* The body runs to its end.
BodyReturns ==
    /\ scope.pc = "body"
    /\ scope' = [scope EXCEPT !.pc = "exit"]
    /\ UNCHANGED <<conversationVars, vectorVars, settings>>

\* An __aexit__ that returns True.
AexitSuppressing ==
    /\ scope.pc = "exit"
    /\ scope' = [scope EXCEPT !.pc = "left", !.closes = @ + 1,
                              !.outcome = Some(<<"returned">>)]
    /\ UNCHANGED <<conversationVars, vectorVars, settings>>

\* __aexit__(exc_type, exc_val, exc_tb): await self.close() and return None,
\* so the exception that left the body, if any, is raised again to the
\* caller of the block.
Aexit ==
    /\ scope.pc = "exit"
    /\ scope' = [scope EXCEPT
                    !.pc = "left", !.closes = @ + 1,
                    !.outcome = IF scope.error = None THEN Some(<<"returned">>)
                                ELSE Some(<<"raised", scope.error[1]>>)]
    /\ UNCHANGED <<conversationVars, vectorVars, settings>>

\* --------------------------------------------------------------- factory

\* The values of an API key: not set, empty, set.
ApiKeys == {None, Some(""), Some("sk-1")}

\* The packages of the remote providers.
Packages == {"openai", "voyageai"}

\* The settings objects by their fields that select and configure a provider.
AllSettings ==
    [embedding_provider : Providers, ollama_model : {"nomic-embed-text", "all-minilm"},
     anthropic_api_key : ApiKeys, openai_api_key : ApiKeys]

\* A test "is None" in place of "not".
IsNone(value) == value = None

\* not value, for an optional string.
Falsy(value) == value = None \/ value = Some("")

\* validate_api_keys: whether the validator lets the object through.
ValidateApiKeys(s) ==
    /\ ~(s.embedding_provider = "anthropic" /\ Falsy(s.anthropic_api_key))
    /\ ~(s.embedding_provider = "openai" /\ Falsy(s.openai_api_key))

\* RecallSettings(**kwargs): the object if the validator lets it through.
NewSettings(s) ==
    /\ ValidateApiKeys(s)
    /\ settings' = Some(s)
    /\ UNCHANGED <<conversationVars, vectorVars, scope>>

\* settings.field = value: the model does not validate assignments.
SetAttr(field, value) ==
    /\ settings # None
    /\ [settings[1] EXCEPT ![field] = value] \in AllSettings
    /\ settings' = Some([settings[1] EXCEPT ![field] = value])
    /\ UNCHANGED <<conversationVars, vectorVars, scope>>

\* What create_embedding_provider(settings) comes to where the packages
\* installed are given: the outcome, and whether __init__ of a provider ran.
\* __init__ of a remote provider raises when its package is missing.
Created(s, installed) ==
    CASE s.embedding_provider = "ollama" -> <<<<"returned", "ollama">>, TRUE>>
      [] s.embedding_provider = "anthropic" ->
            IF Falsy(s.anthropic_api_key)
            THEN <<<<"raised", "ValueError", "anthropic_api_key required">>, FALSE>>
            ELSE IF "voyageai" \in installed
                 THEN <<<<"returned", "anthropic">>, TRUE>>
                 ELSE <<<<"raised", "ProviderNotAvailableError">>, TRUE>>
      [] s.embedding_provider = "openai" ->
            IF Falsy(s.openai_api_key)
            THEN <<<<"raised", "ValueError", "openai_api_key required">>, FALSE>>
            ELSE IF "openai" \in installed
                 THEN <<<<"returned", "openai">>, TRUE>>
                 ELSE <<<<"raised", "ProviderNotAvailableError">>, TRUE>>

\* provider = create_embedding_provider(settings): the provider returned
\* takes the place of the one before.
CreateEmbeddingProvider(installed) ==
    /\ settings # None
    /\ scope.pc \in {"outside", "left"}
    /\ LET s == settings[1]
           created == Created(s, installed)
           result == Some(<<"create_embedding_provider", s, installed,
                            created[1], created[2]>>)
       IN  scope' =
              IF created[1][1] = "returned"
              THEN [Outside EXCEPT
                       !.provider = Some(created[1][2]),
                       !.model = IF created[1][2] = "ollama"
                                 THEN Some(s.ollama_model) ELSE None,
                       !.result = result]
              ELSE [scope EXCEPT !.result = result]
    /\ UNCHANGED <<conversationVars, vectorVars, settings>>

\* ----------------------------------------------------------------- crash

InFlight(p) == proc[p].pc \notin {"idle", "done"}

InSave(p) ==
    proc[p].pc \in {"save_begin", "save_open", "save_write", "save_rename",
                    "save_execute", "save_commit", "save_return"}

\* The process dies: every coroutine is gone, the connection is lost with
\* its uncommitted changes, the files stay as they are. The vector store's
\* table stays as it is, its handles are gone.
Halt ==
    /\ proc' = [p \in Callers |-> Idle]
    /\ db' = None
    /\ connections' = {}
    /\ index' = committed
    /\ hist' = [id \in AllIds |->
                  IF \E p \in Callers :
                        InFlight(p) /\ proc[p].id = id /\ ~ReadOnly(proc[p].call)
                  THEN <<"interrupted">> ELSE hist[id]]
    /\ conn' = Disconnected
    /\ last' = <<"none">>
    /\ UNCHANGED <<files, dirs, committed, tables, schema, written, scope, settings>>

\* A crash at any point of any operation.
Crash ==
    /\ \E p \in Callers : InFlight(p)
    /\ Halt

\* A crash at any point of a save, and at no other time.
CrashInSave ==
    /\ \E p \in Callers : InSave(p)
    /\ \A p \in Callers : InFlight(p) => InSave(p)
    /\ Halt

\* ----------------------------------------------------------- vector store

\* The directory after _ensure_connected: the documents table is there,
\* created empty when it was not.
EnsureConnected ==
    IF TABLE_NAME \in DOMAIN tables THEN tables
    ELSE [n \in {TABLE_NAME} |-> EmptyBag]

\* The schemas after _ensure_connected: a table that is created gets a vector
\* column of the configured dimension, a table that is there keeps its own.
EnsureSchema ==
    IF TABLE_NAME \in DOMAIN schema THEN schema
    ELSE [n \in {TABLE_NAME} |-> Dimension]

\* The latest write of each id after data was written: the last row of data
\* with that id, or what it was.
WrittenAfter(data) ==
    [id \in DocIds |->
        IF \E i \in DOMAIN data : data[i].id = id
        THEN Some(data[CHOOSE i \in DOMAIN data :
                          data[i].id = id /\ \A j \in DOMAIN data :
                                                data[j].id = id => j <= i])
        ELSE written[id]]

\* The lengths of the embeddings of a call.
Sizes(embeddings) == [i \in DOMAIN embeddings |-> Len(embeddings[i])]

\* The merge of data into the table, shared by add and add_batch. The engine
\* converts data to the table's schema first and raises when a vector has
\* not the list size of the vector column.
Execute(call, data) ==
    IF \E i \in DOMAIN data : Len(data[i].vector) # EnsureSchema[TABLE_NAME]
    THEN /\ tables' = EnsureConnected
         /\ last' = <<"raise", call[1]>>
         /\ written' = written
    ELSE \E out \in MergeInsert(EnsureConnected[TABLE_NAME], data) :
            /\ CountRows(out[2]) <= MaxRows
            /\ tables' = [EnsureConnected EXCEPT ![TABLE_NAME] = out[2]]
            /\ last' = IF out[1] = "ok" THEN call ELSE <<"raise", call[1]>>
            /\ written' = IF out[1] = "ok" THEN WrittenAfter(data) ELSE written

\* await store.add(document, embedding)
Add(document, embedding) ==
    /\ conn' = Connected
    /\ schema' = EnsureSchema
    /\ IF JsonSerializable(document.metadata.extra)
       THEN Execute(<<"add", document, Len(embedding)>>,
                    <<DataRow(document, embedding)>>)
       ELSE /\ tables' = EnsureConnected
            /\ last' = <<"raise", "TypeError">>
            /\ written' = written
    /\ UNCHANGED <<conversationVars, providerVars>>

\* An add_batch that pairs documents and embeddings up to the shorter list.
AddBatchZipped(documents, embeddings) ==
    /\ conn' = Connected
    /\ schema' = EnsureSchema
    /\ Execute(<<"add_batch", Len(documents), Sizes(embeddings)>>,
               [i \in 1..Min(Len(documents), Len(embeddings)) |->
                   DataRow(documents[i], embeddings[i])])
    /\ UNCHANGED <<conversationVars, providerVars>>

\* await store.add_batch(documents, embeddings)
AddBatch(documents, embeddings) ==
    /\ conn' = Connected
    /\ schema' = EnsureSchema
    /\ IF Len(documents) # Len(embeddings)
       THEN /\ tables' = EnsureConnected
            /\ last' = <<"raise", "ValueError">>
            /\ written' = written
       ELSE IF \E i \in DOMAIN documents :
                  ~JsonSerializable(documents[i].metadata.extra)
       THEN /\ tables' = EnsureConnected
            /\ last' = <<"raise", "TypeError">>
            /\ written' = written
       ELSE Execute(<<"add_batch", Len(documents), Sizes(embeddings)>>,
                    [i \in DOMAIN documents |-> DataRow(documents[i], embeddings[i])])
    /\ UNCHANGED <<conversationVars, providerVars>>

\* await store.get(id): the first row the engine finds for the filter
\* f"id = '{id}'".
VectorGet(id) ==
    /\ conn' = Connected
    /\ schema' = EnsureSchema
    /\ tables' = EnsureConnected
    /\ LET filter == EqualsFilter(id)
           results == IF filter = None THEN {}
                      ELSE BagToSet(WhereId(EnsureConnected[TABLE_NAME], filter[1]))
       IN IF filter = None THEN last' = <<"raise", "get", id>>
          ELSE IF results = {} THEN last' = <<"get", id, None>>
          ELSE \E row \in results : last' = <<"get", id, Some(DocumentOfRow(row))>>
    /\ UNCHANGED written
    /\ UNCHANGED <<conversationVars, providerVars>>

\* await store.delete(id): the rows that pass the filter f"id = '{id}'" go.
VectorDelete(id) ==
    /\ conn' = Connected
    /\ schema' = EnsureSchema
    /\ LET filter == EqualsFilter(id)
       IN IF filter = None
          THEN /\ tables' = EnsureConnected
               /\ last' = <<"raise", "delete", id>>
               /\ written' = written
          ELSE /\ tables' = [EnsureConnected EXCEPT
                                ![TABLE_NAME] = DeleteRows(@, filter[1])]
               /\ last' = <<"delete", id, TRUE>>
               /\ written' = [d \in DocIds |->
                                 IF d = filter[1] THEN None ELSE written[d]]
    /\ UNCHANGED <<conversationVars, providerVars>>

\* await store.delete_by_conversation(conversation_id): the rows that pass
\* the filter f"conversation_id = '{conversation_id}'" are listed and
\* counted, then deleted. A filter the engine rejects makes the listing
\* raise.
DeleteByConversation(conversation_id) ==
    /\ conn' = Connected
    /\ schema' = EnsureSchema
    /\ LET table == EnsureConnected[TABLE_NAME]
           filter == EqualsFilter(conversation_id)
       IN IF filter = None
          THEN /\ tables' = EnsureConnected
               /\ last' = <<"raise", "delete_by_conversation", conversation_id>>
               /\ written' = written
          ELSE LET matching == WhereConversation(table, filter[1])
               IN /\ tables' = [EnsureConnected EXCEPT
                                   ![TABLE_NAME] = WhereConversationNot(table, filter[1])]
                  /\ \E count \in ListedCounts(CountRows(matching)) :
                        last' = <<"delete_by_conversation", conversation_id, count>>
                  /\ written' = [d \in DocIds |->
                                    IF \E r \in BagToSet(matching) : r.id = d
                                    THEN None ELSE written[d]]
    /\ UNCHANGED <<conversationVars, providerVars>>

\* await store.count()
Count ==
    /\ conn' = Connected
    /\ schema' = EnsureSchema
    /\ tables' = EnsureConnected
    /\ last' = <<"count", CountRows(EnsureConnected[TABLE_NAME])>>
    /\ UNCHANGED written
    /\ UNCHANGED <<conversationVars, providerVars>>

\* await store.search(embedding, limit, filter_expr)
Search(embedding, limit, filter_expr) ==
    /\ conn' = Connected
    /\ schema' = EnsureSchema
    /\ tables' = EnsureConnected
    /\ \E rows \in ToList(EnsureConnected[TABLE_NAME], embedding, limit, filter_expr) :
          last' = <<"search",
                    [embedding |-> embedding, limit |-> limit,
                     filter_expr |-> filter_expr],
                    [i \in DOMAIN rows |-> SearchResult(embedding, rows[i])]>>
    /\ UNCHANGED written
    /\ UNCHANGED <<conversationVars, providerVars>>

\* await store.close()
VectorClose ==
    /\ conn' = Disconnected
    /\ last' = <<"close">>
    /\ UNCHANGED <<tables, schema, written>>
    /\ UNCHANGED <<conversationVars, providerVars>>

\* ------------------------------------------- _ensure_connected, by steps

\* The calls of the vector store issued by a coroutine of caller p, which
\* keeps in out the engine calls of its _ensure_connected that returned.
CallCount(p) ==
    /\ proc[p].pc = "idle"
    /\ Begin(p, <<"count">>, <<>>, None, "connect_check")
    /\ UNCHANGED <<files, dirs, db, connections, index, committed, hist>>
    /\ UNCHANGED <<vectorVars, providerVars>>

CallAdd(p, document, embedding) ==
    /\ proc[p].pc = "idle"
    /\ Begin(p, <<"add", document, embedding>>, <<>>, None, "connect_check")
    /\ UNCHANGED <<files, dirs, db, connections, index, committed, hist>>
    /\ UNCHANGED <<vectorVars, providerVars>>

\* if self._db is None: ... await asyncio.to_thread(lancedb.connect, ...)
ConnectCheck(p) ==
    /\ proc[p].pc = "connect_check"
    /\ proc' = [proc EXCEPT ![p].pc = IF conn.db THEN "table_check" ELSE "connect"]
    /\ UNCHANGED <<files, dirs, db, connections, index, committed, hist>>
    /\ UNCHANGED <<vectorVars, providerVars>>

\* self._db = the connection that lancedb.connect returned
Connect(p) ==
    /\ proc[p].pc = "connect"
    /\ conn' = [conn EXCEPT !.db = TRUE]
    /\ proc' = [proc EXCEPT ![p].pc = "table_check",
                            ![p].out = Append(@, "connect")]
    /\ UNCHANGED <<files, dirs, db, connections, index, committed, hist>>
    /\ UNCHANGED <<tables, schema, last, written>>
    /\ UNCHANGED providerVars

\* if self._table is None: ... await asyncio.to_thread(db.table_names)
TableCheck(p) ==
    /\ proc[p].pc = "table_check"
    /\ proc' = [proc EXCEPT ![p].pc = IF conn.table THEN "operate" ELSE "table_names"]
    /\ UNCHANGED <<files, dirs, db, connections, index, committed, hist>>
    /\ UNCHANGED <<vectorVars, providerVars>>

\* table_names = the names db.table_names returned;
\* if self.TABLE_NAME in table_names: ... else: ...
TableNames(p) ==
    /\ proc[p].pc = "table_names"
    /\ proc' = [proc EXCEPT
                  ![p].pc = IF TABLE_NAME \in DOMAIN tables
                            THEN "open_table" ELSE "create_table",
                  ![p].out = Append(@, "table_names")]
    /\ UNCHANGED <<files, dirs, db, connections, index, committed, hist>>
    /\ UNCHANGED <<vectorVars, providerVars>>

\* self._table = await asyncio.to_thread(db.open_table, self.TABLE_NAME)
OpenTable(p) ==
    /\ proc[p].pc = "open_table"
    /\ conn' = [conn EXCEPT !.table = TRUE]
    /\ proc' = [proc EXCEPT ![p].pc = "operate",
                            ![p].out = Append(@, "open_table")]
    /\ UNCHANGED <<files, dirs, db, connections, index, committed, hist>>
    /\ UNCHANGED <<tables, schema, last, written>>
    /\ UNCHANGED providerVars

\* self._table = await asyncio.to_thread(db.create_table, self.TABLE_NAME,
\* schema=schema): the engine's create_table raises when the table is there.
CreateTable(p) ==
    /\ proc[p].pc = "create_table"
    /\ IF TABLE_NAME \in DOMAIN tables
       THEN /\ proc' = [proc EXCEPT ![p] =
                          Finished(@, <<"raise", "ValueError", "create_table">>)]
            /\ UNCHANGED <<tables, schema, conn>>
       ELSE /\ tables' = EnsureConnected
            /\ schema' = EnsureSchema
            /\ conn' = [conn EXCEPT !.table = TRUE]
            /\ proc' = [proc EXCEPT ![p].pc = "operate",
                                    ![p].out = Append(@, "create_table")]
    /\ UNCHANGED <<files, dirs, db, connections, index, committed, hist>>
    /\ UNCHANGED <<last, written>>
    /\ UNCHANGED providerVars

\* The rest of count and of add, on the table that is there.
Operate(p) ==
    /\ proc[p].pc = "operate"
    /\ IF proc[p].call[1] = "count"
       THEN /\ last' = <<"count", CountRows(tables[TABLE_NAME])>>
            /\ UNCHANGED <<tables, written>>
       ELSE Execute(<<"add", proc[p].call[2], Len(proc[p].call[3])>>,
                    <<DataRow(proc[p].call[2], proc[p].call[3])>>)
    /\ proc' = [proc EXCEPT ![p] = Finished(@, last')]
    /\ UNCHANGED <<files, dirs, db, connections, index, committed, hist>>
    /\ UNCHANGED <<schema, conn>>
    /\ UNCHANGED providerVars

\* ----------------------------------------------------------- observations

\* The caller whose coroutine has finished a call named name.
Done(p, name) == proc[p].pc = "done" /\ proc[p].call[1] = name

\* No coroutine is in flight.
Quiescent == \A p \in Callers : ~InFlight(p)

FileExists(id) == ConversationPath(id) \in DOMAIN files

\* The record a complete content file holds.
FileRecord(id) == ModelValidateJson(Document(files[ConversationPath(id)]))

\* The file of id is complete and the index holds exactly its row.
Consistent(id) ==
    /\ FileExists(id)
    /\ IsDocument(files[ConversationPath(id)])
    /\ RowsOf(index, id) = {Row(FileRecord(id))}

\* Neither a file nor a row for id.
Absent(id) == ~FileExists(id) /\ RowsOf(index, id) = {}

\* The records a list operation returns for the ids its SELECT gave: each id
\* is fetched with get, and an id without a file is skipped.
Hydrate(ids) ==
    LET present == SelectSeq(ids, LAMBDA id : FileExists(id))
    IN [i \in DOMAIN present |-> FileRecord(present[i])]

\* Every list of ids a list operation's SELECT can give in this state, over
\* the operations and their arguments.
Listings ==
    UNION ({SelectAll(index, DefaultLimit, 0), SelectUnindexed(index, DefaultLimit)}
           \cup {SelectByProject(index, c.project_path[1], DefaultLimit, 0) :
                    c \in {d \in Conversations : d.project_path # None}}
           \cup {SelectByDateRange(index, 1, MaxTime, source, DefaultLimit) :
                    source \in {None} \cup {Some(c.source) : c \in Conversations}})

NoDuplicates(s) == \A i, j \in DOMAIN s : i # j => s[i] # s[j]

\* The ids of the stored conversations: those with a content file and an
\* index row.
StoredIds == {id \in Ids : FileExists(id) /\ RowsOf(index, id) # {}}

\* The ids of the records in a returned list.
ReturnedIds(out) == {out[i].id : i \in DOMAIN out}


\* What get returns for a file that holds the document of record c.
ReadBack(c) == ModelValidateJson(ModelDumpJson(c))

\* Equality of two records on every field except the payloads of type Any.
SameTypedFields(c, d) ==
    /\ c.id = d.id /\ c.source = d.source /\ c.project_path = d.project_path
    /\ c.created_at = d.created_at /\ c.updated_at = d.updated_at
    /\ c.indexed_at = d.indexed_at /\ c.title = d.title
    /\ Len(c.messages) = Len(d.messages)
    /\ \A i \in 1..Len(c.messages) :
          /\ c.messages[i].role = d.messages[i].role
          /\ c.messages[i].content = d.messages[i].content
          /\ c.messages[i].timestamp = d.messages[i].timestamp
          /\ Len(c.messages[i].tool_calls) = Len(d.messages[i].tool_calls)

\* ------------------------------------------------------------------ claims

\* C1 as stated: a get that follows a completed save(c), with no other
\* mutating call on c.id in between, returns a record equal to c.
C1_RoundTripAnyPayload ==
    \A p \in Callers :
        (Done(p, "get") /\ hist[proc[p].id][1] = "save")
            => proc[p].result = <<"conv", hist[proc[p].id][2]>>

\* The part of C1 that holds: a get that follows a completed save(c), with
\* no other mutating call on c.id in between, returns a record that equals c
\* on id, source, project_path, created_at, updated_at, indexed_at, title and
\* on the messages' order, role, content and timestamp; it equals c in full
\* when c's extra mapping and tool-call payloads hold JSON-native values only.
C1_RoundTrip ==
    \A p \in Callers :
        (Done(p, "get") /\ hist[proc[p].id][1] = "save")
            => LET c == hist[proc[p].id][2]
               IN /\ proc[p].result[1] = "conv"
                  /\ SameTypedFields(proc[p].result[2], c)
                  /\ JsonNativeConversation(c) => proc[p].result[2] = c

\* The full record was saved and get has returned it (C1's case where the
\* round trip is exact).
C1_Witness ==
    \E p \in Callers :
        /\ Done(p, "get")
        /\ hist[proc[p].id] = <<"save", FullConversation(MainId)>>
        /\ proc[p].result = <<"conv", FullConversation(MainId)>>

\* C2 as stated: whatever saves of the same id a get interleaves with, it
\* returns not-found or a complete record that some save was given (here
\* every save is given a record of ConversationsOf(id)); it never fails on,
\* or returns, a partly written or mixed file.
C2_GetSeesWholeRecords ==
    \A p \in Callers :
        Done(p, "get") =>
            \/ proc[p].result = <<"notfound">>
            \/ /\ proc[p].result[1] = "conv"
               /\ \E c \in ConversationsOf(proc[p].id) :
                     proc[p].result[2] = ReadBack(c)

\* C3 as stated, first half: every one of the overlapping saves of an id
\* completes without error.
C3_NoSaveFails ==
    \A p \in Callers : Done(p, "save") => proc[p].result = <<"ok">>

\* C3 as stated, second half: once all saves have completed, the content
\* file and the index row carry the data of the same save.
C3_FileAndRowAgree ==
    (Quiescent /\ ~Absent(MainId)) => Consistent(MainId)

\* C3 as stated: overlapping saves of an id all complete without error, and
\* once all have completed the content file and the index row carry the data
\* of the same save.
C3_OverlappingSaves == C3_NoSaveFails /\ C3_FileAndRowAgree

\* C4: a save upserts its row only after it has renamed the completely
\* written file into place; and when nothing is in flight, a row is there
\* only for an id whose complete content file is there, and a file and a row
\* that disagree (a file without a row, a file that is not the row's) are
\* there only after an interrupted call.
C4_FileBeforeIndex ==
    /\ \A p \in Callers : proc[p].upserted => proc[p].renamed = "complete"
    /\ Quiescent =>
          \A id \in Ids :
              /\ RowsOf(index, id) # {} =>
                    FileExists(id) /\ IsDocument(files[ConversationPath(id)])
              /\ hist[id] # <<"interrupted">> => Consistent(id) \/ Absent(id)

\* C4's case: a save was interrupted and has left the content file without
\* an index row.
C4_Witness ==
    /\ Quiescent
    /\ hist[MainId] = <<"interrupted">>
    /\ FileExists(MainId)
    /\ RowsOf(index, MainId) = {}

\* C5 as stated: after any sequence of save calls each id has at most one
\* content file and at most one row, a get returns the record passed to the
\* most recent completed save, and no list operation returns an id twice.
C5_ReplaceReturnsPassedRecord ==
    /\ \A id \in Ids :
          /\ Cardinality(RowsOf(index, id)) <= 1
          /\ Cardinality({q \in DOMAIN files : q.stem = id /\ q.suffix = ".json"}) <= 1
    /\ \A p \in Callers :
          (Done(p, "get") /\ hist[proc[p].id][1] = "save")
              => proc[p].result = <<"conv", hist[proc[p].id][2]>>
    /\ \A ids \in Listings : NoDuplicates(ids)

\* The part of C5 that holds: after any sequence of save calls each id has
\* at most one content file and at most one row, a get returns the record
\* passed to the most recent completed save as its JSON document reads back
\* (nothing of an earlier save in it), and no list operation returns an id
\* twice.
C5_Replace ==
    /\ \A id \in Ids :
          /\ Cardinality(RowsOf(index, id)) <= 1
          /\ Cardinality({q \in DOMAIN files : q.stem = id /\ q.suffix = ".json"}) <= 1
    /\ \A p \in Callers :
          (Done(p, "get") /\ hist[proc[p].id][1] = "save")
              => proc[p].result = <<"conv", ReadBack(hist[proc[p].id][2])>>
    /\ \A ids \in Listings : NoDuplicates(ids)
    /\ \A ids \in Listings : NoDuplicates(IdsOf(Hydrate(ids)))

\* The full record of MainId was saved over another record of MainId (which
\* held no message), and get has returned the full record; both ids are
\* stored (C5's case where the replacement is exact).
C5_Witness ==
    \E p \in Callers :
        /\ Done(p, "get")
        /\ proc[p].pre.rows = {Row(FullConversation(MainId))}
        /\ proc[p].result = <<"conv", FullConversation(MainId)>>
        /\ hist[OtherId][1] = "save"
        /\ Cardinality(index) = 2
        /\ \E ids \in Listings : Len(ids) = 2

\* C7: a get that ran alone returned not-found exactly when there is no
\* content file for its id, whatever rows the index holds, and the record of
\* the file otherwise; and the files and the rows are as they were when the
\* get was issued.
C7_GetReadsFile ==
    \A p \in Callers :
        Done(p, "get") =>
            LET id == proc[p].id
            IN /\ (proc[p].result = <<"notfound">>) <=> ~FileExists(id)
               /\ FileExists(id) => proc[p].result = <<"conv", FileRecord(id)>>
               /\ Snapshot(id) = proc[p].pre

\* C7's case: not-found although the index holds a row for the id.
C7_Witness ==
    \E p \in Callers :
        /\ Done(p, "get")
        /\ proc[p].result = <<"notfound">>
        /\ RowsOf(index, proc[p].id) # {}

\* C7's other case: a record although the index holds no row for the id.
C7_WitnessNoRow ==
    \E p \in Callers :
        /\ Done(p, "get")
        /\ proc[p].result[1] = "conv"
        /\ RowsOf(index, proc[p].id) = {}

\* C8: when delete(id) has returned, its result is true exactly when a
\* content file for id existed at the call; there is no content file and no
\* row for id (committed too), no list operation returns id, get_stats counts
\* the other rows only, and a get that follows returns not-found.
C8_DeleteComplete ==
    /\ \A p \in Callers :
          Done(p, "delete") =>
              LET id == proc[p].id
              IN /\ proc[p].result = <<"bool", proc[p].pre.file # None>>
                 /\ Absent(id)
                 /\ RowsOf(committed, id) = {}
                 /\ \A ids \in Listings : \A i \in DOMAIN ids : ids[i] # id
                 /\ Stats(index).total_conversations =
                        Cardinality({r \in index : r.id # id})
    /\ \A p \in Callers :
          (Done(p, "get") /\ hist[proc[p].id] = <<"delete">>)
              => proc[p].result = <<"notfound">>

\* C8's case: delete has returned false for an id that had a row but no
\* file, and the row is gone while another conversation is still counted.
C8_Witness ==
    \E p \in Callers :
        /\ Done(p, "delete")
        /\ proc[p].result = <<"bool", FALSE>>
        /\ proc[p].pre.rows # {}
        /\ Stats(index).total_conversations = 1

\* C8's other case: delete has returned true.
C8_WitnessExisted ==
    \E p \in Callers :
        /\ Done(p, "delete")
        /\ proc[p].result = <<"bool", TRUE>>
        /\ proc[p].pre.rows # {}

\* C9: when mark_indexed(id, t) has returned for an id whose content file
\* existed at the call, the file holds the record it held then with
\* indexed_at = t (the clock's reading when t was omitted) and nothing else
\* changed, and the index holds exactly the row of that record.
C9_MarkIndexedFrame ==
    \A p \in Callers :
        (Done(p, "mark_indexed") /\ proc[p].pre.file # None) =>
            LET id == proc[p].id
                arg == proc[p].call[3]
                t == IF arg = None THEN proc[p].now ELSE arg
                before == ModelValidateJson(Document(proc[p].pre.file[1]))
            IN /\ proc[p].result = <<"ok">>
               /\ FileExists(id)
               /\ IsDocument(files[ConversationPath(id)])
               /\ FileRecord(id) = [before EXCEPT !.indexed_at = t]
               /\ RowsOf(index, id) = {Row([before EXCEPT !.indexed_at = t])}
               /\ committed = index

\* C9's case: mark_indexed has returned and the file's indexed_at differs
\* from the one it held at the call.
C9_Witness ==
    \E p \in Callers :
        /\ Done(p, "mark_indexed")
        /\ proc[p].pre.file # None
        /\ proc[p].call[3] = None
        /\ FileExists(proc[p].id)
        /\ FileRecord(proc[p].id).indexed_at = Some(1)
        /\ ModelValidateJson(Document(proc[p].pre.file[1])).indexed_at = Some(2)
        /\ Len(FileRecord(proc[p].id).messages) = 2

\* C10 as stated: mark_indexed(id) for an id with no content file raises
\* nothing, creates no file and no row, and leaves the rows of the index as
\* they were.
C10_MarkIndexedMissingIsNoOp ==
    \A p \in Callers :
        (Done(p, "mark_indexed") /\ proc[p].pre.file = None) =>
            /\ proc[p].result = <<"ok">>
            /\ ~FileExists(proc[p].id)
            /\ RowsOf(index, proc[p].id) = proc[p].pre.rows

\* C6 (original statement): after any sequence of add, add_batch and delete
\* calls the table holds exactly one row for every document id written and
\* not deleted since, the row of the latest write of that id, and no other
\* row; and count() returns the number of those ids.
C6_OneRowPerId ==
    TABLE_NAME \in DOMAIN tables =>
        /\ tables[TABLE_NAME] =
              SetToBag({written[id][1] : id \in {d \in DocIds : written[d] # None}})
        /\ last[1] = "count" =>
              last[2] = Cardinality({d \in DocIds : written[d] # None})

\* -------------------------------------------------------- specifications

\* C11: list_unindexed(limit) returns exactly the stored conversations whose
\* indexed_at is null, the oldest ones when the limit truncates, ordered by
\* created_at ascending; every returned record itself has indexed_at null,
\* and a conversation for which mark_indexed has completed is not returned.
C11_UnindexedQueue ==
    \A p \in Callers :
        Done(p, "list_unindexed") =>
            LET out == proc[p].result[2]
                unindexed == {id \in StoredIds : FileRecord(id).indexed_at = None}
            IN /\ proc[p].result[1] = "list"
               /\ \A i \in DOMAIN out : out[i].indexed_at = None
               /\ \A i, j \in DOMAIN out :
                     i < j => out[i].created_at <= out[j].created_at
               /\ NoDuplicates(out)
               /\ ReturnedIds(out) \subseteq unindexed
               /\ Len(out) = Min(proc[p].call[2], Cardinality(unindexed))
               /\ \A id \in unindexed \ ReturnedIds(out) : \A i \in DOMAIN out :
                     out[i].created_at <= FileRecord(id).created_at
               /\ \A id \in Ids :
                     hist[id] = <<"mark_indexed">> => id \notin ReturnedIds(out)

\* A list_unindexed whose limit truncated has returned the oldest record, and
\* a conversation that mark_indexed has marked is stored.
C11_Witness ==
    \E p \in Callers :
        /\ Done(p, "list_unindexed")
        /\ proc[p].result[1] = "list"
        /\ Len(proc[p].result[2]) = 1
        /\ Cardinality({id \in StoredIds : FileRecord(id).indexed_at = None}) = 2
        /\ \E id \in StoredIds : hist[id] = <<"mark_indexed">>

\* C12: in any state, also when an index row has no content file, list_all
\* and list_by_project complete without error, return at most limit records,
\* omit exactly the rows whose file is missing, and return the records in
\* non-increasing order of the records' updated_at.
C12_ListsSkipMissingFiles ==
    \A p \in Callers :
        (Done(p, "list_all") \/ Done(p, "list_by_project")) =>
            LET out == proc[p].result[2]
                limit == IF proc[p].call[1] = "list_all"
                         THEN proc[p].call[2] ELSE proc[p].call[3]
            IN /\ proc[p].result[1] = "list"
               /\ Len(out) <= limit
               /\ \E ids \in Selected(proc[p].call, index) : out = Hydrate(ids)
               /\ \A i, j \in DOMAIN out :
                     i < j => out[i].updated_at >= out[j].updated_at

\* A list_all that skipped a row without a file and returned another record.
C12_Witness ==
    \E p \in Callers :
        /\ Done(p, "list_all")
        /\ proc[p].result[1] = "list"
        /\ proc[p].result[2] # <<>>
        /\ \E r \in index : ~FileExists(r.id)
        /\ \E ids \in Selected(proc[p].call, index) :
              /\ proc[p].result[2] = Hydrate(ids)
              /\ Len(ids) > Len(proc[p].result[2])

C13_Witness ==
    \E p, q \in Callers :
        /\ Done(p, "list_all") /\ Done(q, "list_all")
        /\ proc[p].call = <<"list_all", 1, 0>> /\ proc[q].call = <<"list_all", 1, 1>>
        /\ Cardinality(StoredIds) = 3
        /\ \E a, b \in StoredIds :
              a # b /\ FileRecord(a).updated_at = FileRecord(b).updated_at

C15_DateRange ==
    \A p \in Callers :
        (Done(p, "list_by_date_range") /\ proc[p].call[4] = None) =>
            LET out == proc[p].result[2]
                start == proc[p].call[2]
                end == proc[p].call[3]
                limit == proc[p].call[5]
                matching == {id \in StoredIds :
                                /\ start <= FileRecord(id).created_at
                                /\ FileRecord(id).created_at <= end}
            IN /\ proc[p].result[1] = "list"
               /\ NoDuplicates(out)
               /\ ReturnedIds(out) \subseteq matching
               /\ Len(out) = Min(limit, Cardinality(matching))
               /\ \A i, j \in DOMAIN out :
                     i < j => out[i].created_at >= out[j].created_at
               /\ \A id \in matching \ ReturnedIds(out) : \A i \in DOMAIN out :
                     out[i].created_at >= FileRecord(id).created_at

\* A list_by_date_range has returned a conversation created exactly at start
\* and one created exactly at end, and another one whose limit truncated has
\* kept the later of two conversations in its range.
C15_Witness ==
    \E p \in Callers :
        /\ Done(p, "list_by_date_range") /\ proc[p].call[4] = None
        /\ proc[p].result[1] = "list"
        /\ proc[p].call[2] < proc[p].call[3]
        /\ LET out == proc[p].result[2]
           IN \/ /\ \E i \in DOMAIN out : out[i].created_at = proc[p].call[2]
                 /\ \E i \in DOMAIN out : out[i].created_at = proc[p].call[3]
              \/ /\ Len(out) = 1
                 /\ out[1].created_at = proc[p].call[3]
                 /\ \E id \in StoredIds : FileRecord(id).created_at = proc[p].call[2]

\* C16: when list_by_date_range is given a source argument s, every returned
\* conversation has source exactly s, for every string s, the empty string
\* included; when the argument is omitted, the conversations of every source
\* within the range are returned.
C16_SourceFilter ==
    \A p \in Callers :
        Done(p, "list_by_date_range") =>
            LET out == proc[p].result[2]
                source == proc[p].call[4]
                inRange == {id \in StoredIds :
                               /\ proc[p].call[2] <= FileRecord(id).created_at
                               /\ FileRecord(id).created_at <= proc[p].call[3]}
            IN /\ proc[p].result[1] = "list"
               /\ source # None => \A i \in DOMAIN out : out[i].source = source[1]
               /\ (source = None /\ Cardinality(inRange) <= proc[p].call[5])
                     => ReturnedIds(out) = inRange

\* The part of C16 that holds: a non-empty source argument is matched
\* exactly, and an omitted one returns every source.
C16_NonEmptySourceFilter ==
    \A p \in Callers :
        Done(p, "list_by_date_range") =>
            LET out == proc[p].result[2]
                source == proc[p].call[4]
                inRange == {id \in StoredIds :
                               /\ proc[p].call[2] <= FileRecord(id).created_at
                               /\ FileRecord(id).created_at <= proc[p].call[3]}
            IN /\ proc[p].result[1] = "list"
               /\ (source # None /\ source[1] # <<>>)
                     => \A i \in DOMAIN out : out[i].source = source[1]
               /\ (source = None /\ Cardinality(inRange) <= proc[p].call[5])
                     => ReturnedIds(out) = inRange

\* list_by_date_range with source "t" has returned a record while a
\* conversation of another source is stored in the range.
C16_Witness ==
    \E p \in Callers :
        /\ Done(p, "list_by_date_range")
        /\ proc[p].call[4] = Some(<<"t">>)
        /\ proc[p].result[1] = "list"
        /\ proc[p].result[2] # <<>>
        /\ \E id \in StoredIds :
              /\ FileRecord(id).source # <<"t">>
              /\ proc[p].call[2] <= FileRecord(id).created_at
              /\ FileRecord(id).created_at <= proc[p].call[3]

\* C17: get_stats returns total_conversations = the number of rows of the
\* index, indexed_conversations = the number of those with non-null
\* indexed_at, unique_projects = the number of distinct non-null project_path
\* values among them, hence indexed_conversations <= total_conversations and
\* unique_projects <= total_conversations in every state; and no step of
\* get_stats changes a content file or an index row.
C17_GetStats ==
    /\ [](\A p \in Callers :
            Done(p, "get_stats") =>
                /\ proc[p].result[1] = "stats"
                /\ LET stats == proc[p].result[2]
                   IN /\ stats.total_conversations = Cardinality(index)
                      /\ stats.indexed_conversations =
                            Cardinality({r \in index : r.indexed_at # None})
                      /\ stats.unique_projects =
                            Cardinality({r.project_path[1] :
                                            r \in {q \in index : q.project_path # None}})
                      /\ stats.indexed_conversations <= stats.total_conversations
                      /\ stats.unique_projects <= stats.total_conversations)
    /\ [][\A p \in Callers :
            (proc[p].call[1] = "get_stats" /\ proc'[p].call[1] = "get_stats")
                => UNCHANGED <<files, index, committed>>]_vars

\* get_stats has counted three rows, one of them without a content file, of
\* which some but not all are indexed and some have no project_path.
C17_Witness ==
    \E p \in Callers :
        /\ Done(p, "get_stats")
        /\ proc[p].result[1] = "stats"
        /\ proc[p].result[2].total_conversations = 3
        /\ proc[p].result[2].indexed_conversations = 1
        /\ proc[p].result[2].unique_projects = 1
        /\ \E r \in index : ~FileExists(r.id)
        /\ \E r \in index : r.project_path = None

\* One step of the coroutine of caller p.
Step(p) ==
    \/ SaveBegin(p) \/ SaveOpen(p) \/ SaveWrite(p) \/ SaveRename(p)
    \/ SaveExecute(p) \/ SaveCommit(p) \/ SaveReturn(p)
    \/ GetExists(p) \/ GetRead(p)
    \/ DeleteExists(p) \/ DeleteUnlink(p) \/ DeleteExecute(p) \/ DeleteCommit(p)
    \/ \E utcnow \in Times : MarkExecute(p, utcnow)
    \/ MarkCommit(p)
    \/ Return(p)

\* Caller p issues a call: a mutating one on an id of ids, with a record of
\* convs, or a get of any id.
Call(p, convs, ids) ==
    \/ \E c \in convs : CallSave(p, c)
    \/ \E id \in Ids : CallGet(p, id)
    \/ \E id \in ids : CallDelete(p, id)
    \/ \E id \in ids : \E t \in {None} \cup {Some(u) : u \in Times} :
          CallMarkIndexed(p, id, t)

\* One caller working on MainId: every operation runs alone, and the process
\* may crash at any point.
Next == Call(1, ConversationsOf(MainId), {MainId}) \/ Step(1) \/ Crash

Spec == Init /\ [][Next]_vars

\* One caller, and the process may crash while a save runs.
NextSaveCrash == Call(1, ConversationsOf(MainId), {MainId}) \/ Step(1) \/ CrashInSave

SpecSaveCrash == Init /\ [][NextSaveCrash]_vars

\* One caller that only saves and gets, on every id.
NextSaveOnly ==
    \/ \E c \in Conversations : CallSave(1, c)
    \/ \E id \in Ids : CallGet(1, id)
    \/ SaveBegin(1) \/ SaveOpen(1) \/ SaveWrite(1) \/ SaveRename(1)
    \/ SaveExecute(1) \/ SaveCommit(1) \/ SaveReturn(1)
    \/ GetExists(1) \/ GetRead(1)
    \/ Return(1)

SpecSaveOnly == Init /\ [][NextSaveOnly]_vars

\* The arguments the list operations are called with.
Limits == {1, DefaultLimit}
Offsets == {0, 1}
ProjectPaths == {<<"/", "p">>, <<"/", "q">>}
Sources == {None, Some(<<>>), Some(<<"t">>)}

\* Caller p issues a list operation or get_stats.
ListCall(p) ==
    \/ \E limit \in Limits : \E offset \in Offsets : CallListAll(p, limit, offset)
    \/ \E project_path \in ProjectPaths : \E limit \in Limits : \E offset \in Offsets :
          CallListByProject(p, project_path, limit, offset)
    \/ \E start \in Times : \E end \in Times : \E source \in Sources :
          \E limit \in Limits : CallListByDateRange(p, start, end, source, limit)
    \/ \E limit \in Limits : CallListUnindexed(p, limit)
    \/ CallGetStats(p)

\* One step of a list operation or of get_stats that is not a step of get.
ListStep(p) ==
    \/ ListSelect(p)
    \/ StatsTotal(p) \/ StatsIndexed(p) \/ StatsProjects(p)

\* The data directory an earlier run left to the store that lists: the
\* records of two other ids, which share their timestamps or differ in them.
InitList ==
    /\ \E convs \in {{BareConversation(OtherId), BareConversation(ThirdId)},
                      {BareConversation(OtherId), TupleConversation(ThirdId)}} :
          Stored(convs)
    /\ db = None
    /\ connections = {}
    /\ proc = [p \in Callers |-> Idle]
    /\ hist = [id \in AllIds |-> <<"none">>]
    /\ tables = <<>>
    /\ schema = <<>>
    /\ conn = Disconnected
    /\ last = <<"none">>
    /\ written = [id \in DocIds |-> None]
    /\ scope = Outside
    /\ settings = None

\* One caller that saves, deletes and marks MainId and lists the store:
\* every operation runs alone, and the process may crash at any point.
NextList ==
    \/ \E c \in ConversationsOf(MainId) : CallSave(1, c)
    \/ CallDelete(1, MainId)
    \/ CallMarkIndexed(1, MainId, Some(1))
    \/ Step(1)
    \/ ListCall(1) \/ ListStep(1)
    \/ Crash

SpecList == InitList /\ [][NextList]_vars

\* The same caller when no call is interrupted: every call runs alone and to
\* completion.
NextCalls ==
    \/ \E c \in ConversationsOf(MainId) : CallSave(1, c)
    \/ CallDelete(1, MainId)
    \/ CallMarkIndexed(1, MainId, Some(1))
    \/ Step(1)
    \/ ListCall(1) \/ ListStep(1)

SpecCalls == InitList /\ [][NextCalls]_vars

\* Callers that page through list_all one call at a time, each keeping the
\* page it got; MainId is saved only while no caller holds a page, so the
\* pages that are held together are pages of one unchanged store.
NextPages ==
    \/ /\ \A q \in Callers : proc[q].pc = "idle"
       /\ \E c \in ConversationsOf(MainId) : CallSave(1, c)
    \/ \E p \in Callers :
          /\ \A q \in Callers : ~InFlight(q)
          /\ \E limit \in Limits : \E offset \in Offsets : CallListAll(p, limit, offset)
    \/ \E p \in Callers :
          \/ SaveBegin(p) \/ SaveOpen(p) \/ SaveWrite(p) \/ SaveRename(p)
          \/ SaveExecute(p) \/ SaveCommit(p) \/ SaveReturn(p)
          \/ ListSelect(p) \/ GetExists(p) \/ GetRead(p)
          \/ Return(p)

SpecPages == InitList /\ [][NextPages]_vars

\* Several callers whose coroutines interleave, saving and getting MainId.
NextSaves ==
    \E p \in Callers :
        \/ \E c \in {BareConversation(MainId), FullConversation(MainId)} :
              CallSave(p, c)
        \/ CallGet(p, MainId)
        \/ SaveBegin(p) \/ SaveOpen(p) \/ SaveWrite(p) \/ SaveRename(p)
        \/ SaveExecute(p) \/ SaveCommit(p) \/ SaveReturn(p)
        \/ GetExists(p) \/ GetRead(p)
        \/ Return(p)

SpecSaves == Init /\ [][NextSaves]_vars

\* The lists add_batch is called with.
Batches(S) == UNION {[1..n -> S] : n \in 1..MaxBatch}

\* One caller of the vector store, each call run to completion.
NextVector ==
    \/ \E document \in Documents : \E embedding \in Embeddings :
          Add(document, embedding)
    \/ \E documents \in Batches(Documents) : \E embeddings \in Batches(Embeddings) :
          AddBatch(documents, embeddings)
    \/ \E id \in DocIds : VectorGet(id)
    \/ \E id \in DocIds : VectorDelete(id)
    \/ Count
    \/ VectorClose

SpecVector == Init /\ [][NextVector]_vars

\* The documents that are searched: two of source "t" and one of source
\* "cc".
FromSource(document, source) == [document EXCEPT !.metadata.source = source]

SearchDocuments ==
    {NewDocument(<<"d", "1">>, <<"o", "l", "d">>),
     NewDocument(<<"d", "2">>, <<"o", "l", "d">>),
     FromSource(NewDocument(<<"d", "3">>, <<"o", "l", "d">>), <<"c", "c">>)}

\* The embeddings documents are stored with, and the ones searched for.
SearchEmbeddings == {Embedding(x) : x \in 1..3}
QueryEmbeddings == {Embedding(0), Embedding(2)}

\* One caller that adds documents and searches, each call run to completion.
NextSearch ==
    \/ \E document \in SearchDocuments : \E embedding \in SearchEmbeddings :
          Add(document, embedding)
    \/ \E embedding \in QueryEmbeddings :
          \E limit \in 1..Cardinality(SearchDocuments) :
          \E filter_expr \in {None, Some(<<"t">>), Some(<<"c", "c">>)} :
              Search(embedding, limit, filter_expr)

SpecSearch == Init /\ [][NextSearch]_vars

\* The rows of the table that pass a filter, one per copy.
PassingRows(filter_expr) ==
    {c \in Copies(tables[TABLE_NAME]) :
        filter_expr = None \/ c[1].source = filter_expr[1]}

\* The results of the latest search are limit of the rows that pass its
\* filter, or all of them when they are fewer: each result is built from a
\* row of its own, nearer results come first, and no row left out is nearer
\* than a row returned.
NearestPassing ==
    LET query == last[2].embedding
        results == last[3]
        passing == PassingRows(last[2].filter_expr)
    IN /\ Len(results) = Min(last[2].limit, Cardinality(passing))
       /\ \E chosen \in [DOMAIN results -> passing] :
             /\ \A i, j \in DOMAIN results : i # j => chosen[i] # chosen[j]
             /\ \A i \in DOMAIN results :
                   /\ results[i].document = DocumentOfRow(chosen[i][1])
                   /\ results[i].distance = Distance(query, chosen[i][1])
             /\ \A c \in passing :
                   (\A i \in DOMAIN results : chosen[i] # c) =>
                       \A i \in DOMAIN results :
                           ~Less(Distance(query, c[1]), results[i].distance)
       /\ \A i, j \in DOMAIN results :
             i < j => ~Less(results[j].distance, results[i].distance)

\* C18: search(e, limit) without a filter returns min(limit, number of rows)
\* results, which are the rows nearest to e, nearest first, and a search
\* leaves the rows of the table as they were.
C18_SearchNearest ==
    /\ []((last[1] = "search" /\ last[2].filter_expr = None) => NearestPassing)
    /\ [][last'[1] = "search" =>
            /\ tables'[TABLE_NAME] = EnsureConnected[TABLE_NAME]
            /\ DOMAIN tables' = {TABLE_NAME}]_vars

\* C18's case: a search without a filter in a table of three rows at three
\* distances returned the two nearest and left the farthest out.
C18_Witness ==
    /\ last[1] = "search"
    /\ last[2].filter_expr = None
    /\ last[2].limit = 2
    /\ CountRows(tables[TABLE_NAME]) = 3
    /\ Len(last[3]) = 2
    /\ Less(last[3][1].distance, last[3][2].distance)
    /\ \E r \in BagToSet(tables[TABLE_NAME]) :
          Less(last[3][2].distance, Distance(last[2].embedding, r))

\* The part of C19 that holds: a search with a filter returns only rows that
\* satisfy the filter, at most limit of them, nearest first.
C19_OnlyMatchingRows ==
    (last[1] = "search" /\ last[2].filter_expr # None) =>
        /\ Len(last[3]) <= last[2].limit
        /\ \A i \in DOMAIN last[3] :
              /\ last[3][i].document.metadata.source = last[2].filter_expr[1]
              /\ \E c \in PassingRows(last[2].filter_expr) :
                    last[3][i].document = DocumentOfRow(c[1])
        /\ \A i, j \in DOMAIN last[3] :
              i < j => ~Less(last[3][j].distance, last[3][i].distance)

\* C19: search with a filter returns only rows that satisfy the filter, and
\* the filter applies before the ranking and the limit: the result holds
\* min(limit, number of matching rows) rows, the nearest matching ones, also
\* when more than limit rows that do not match are nearer to the query.
C19_FilterBeforeLimit ==
    (last[1] = "search" /\ last[2].filter_expr # None) =>
        /\ \A i \in DOMAIN last[3] :
              last[3][i].document.metadata.source = last[2].filter_expr[1]
        /\ NearestPassing

\* C19's case: a search with limit 1 and a filter returned the one matching
\* row although two rows that do not match are nearer to the query.
C19_Witness ==
    /\ last[1] = "search"
    /\ last[2].filter_expr # None
    /\ last[2].limit = 1
    /\ Len(last[3]) = 1
    /\ Cardinality({r \in BagToSet(tables[TABLE_NAME]) :
                       /\ r.source # last[2].filter_expr[1]
                       /\ Less(Distance(last[2].embedding, r),
                               last[3][1].distance)}) = 2

\* The part of C20 that holds of every result list: score is the float
\* 1.0 / (1.0 + distance), distance >= 0, 0 < score <= 1, and the scores do
\* not increase along the list.
ScoresInRange ==
    LET results == last[3]
    IN /\ \A i \in DOMAIN results :
             /\ results[i].distance[1] >= 0
             /\ results[i].score = Score(results[i].distance)
             /\ Less(<<0, 1>>, results[i].score)
             /\ ~Less(<<1, 1>>, results[i].score)
       /\ \A i, j \in DOMAIN results :
             i < j => ~Less(results[i].score, results[j].score)

\* C20 (original statement): every SearchResult has score = 1 / (1 +
\* distance) with distance >= 0, hence 0 < score <= 1; the scores of a result
\* list do not increase, and they strictly decrease wherever the distances
\* strictly increase.
C20_ScoreStrictlyDecreasing ==
    last[1] = "search" =>
        /\ ScoresInRange
        /\ \A i, j \in DOMAIN last[3] :
              Less(last[3][i].distance, last[3][j].distance) =>
                  Less(last[3][j].score, last[3][i].score)

\* C20 (amended): every SearchResult has the float score 1.0 / (1.0 +
\* distance) with distance >= 0 and 0 < score <= 1, and the scores of a
\* result list do not increase; results at different distances can have the
\* same score.
C20_Score ==
    last[1] = "search" => ScoresInRange

\* C20's case: a result list with three distances, the first two of the same
\* score and the third of a smaller one.
C20_Witness ==
    /\ last[1] = "search"
    /\ Len(last[3]) = 3
    /\ Less(last[3][1].distance, last[3][2].distance)
    /\ Less(last[3][2].distance, last[3][3].distance)
    /\ last[3][1].score = last[3][2].score
    /\ Less(last[3][3].score, last[3][2].score)


\* The chunks of conversations: three documents, each of no conversation, of
\* conversation "" or of conversation "A" or "B".
WithConversation(document, conversation_id) ==
    [document EXCEPT !.metadata.conversation_id = conversation_id]

ChunkIds == DocIds \cup {<<"d", "3">>}
ConversationIds == {<<>>, <<"A">>, <<"B">>}

ChunkDocuments ==
    {WithConversation(NewDocument(id, <<"o", "l", "d">>), c) :
        id \in ChunkIds, c \in {None} \cup {Some(x) : x \in ConversationIds}}

\* One caller that adds chunks, deletes the chunks of a conversation and looks
\* chunks up, each call run to completion.
NextChunks ==
    \/ \E document \in ChunkDocuments : Add(document, Embedding(1))
    \/ \E conversation_id \in ConversationIds :
          DeleteByConversation(conversation_id)
    \/ \E id \in ChunkIds : VectorGet(id)

SpecChunks == Init /\ [][NextChunks]_vars

\* The rows of the documents table before and after a step.
RowsBefore == EnsureConnected[TABLE_NAME]
RowsAfter == tables'[TABLE_NAME]

\* The part of C21 that holds: delete_by_conversation(c) removes every row
\* whose conversation_id is c.
C21_RemovesMatchingRows ==
    [][last'[1] = "delete_by_conversation" =>
          WhereConversation(RowsAfter, last'[2]) = EmptyBag]_vars

\* C21: with no concurrent writers, delete_by_conversation(c) removes every
\* row whose conversation_id equals c and returns exactly the number of rows
\* it removed, for none, one or many matching rows.
C21_DeleteByConversationCount ==
    [][last'[1] = "delete_by_conversation" =>
          /\ WhereConversation(RowsAfter, last'[2]) = EmptyBag
          /\ last'[3] = CountRows(RowsBefore) - CountRows(RowsAfter)]_vars

\* C21's case: delete_by_conversation has removed three rows.
C21_Witness ==
    /\ last[1] = "delete_by_conversation"
    /\ last[2] = <<"A">>
    /\ last[3] = 3
    /\ CountRows(tables[TABLE_NAME]) = 0

\* The part of C22 that holds: delete_by_conversation(c) leaves every row
\* whose conversation_id column is not c as it was.
C22_OtherRowsStay ==
    [][last'[1] = "delete_by_conversation" =>
          WhereConversationNot(RowsAfter, last'[2])
              = WhereConversationNot(RowsBefore, last'[2])]_vars

\* C22: delete_by_conversation(c) leaves every row whose document has a
\* different conversation_id, or none, stored and retrievable unchanged, for
\* every c including the empty string.
C22_DeleteByConversationFrame ==
    [][last'[1] = "delete_by_conversation" =>
          \A r \in BagToSet(RowsBefore) :
              DocumentOfRow(r).metadata.conversation_id # Some(last'[2]) =>
                  /\ r \in BagToSet(RowsAfter)
                  /\ RowsAfter[r] = RowsBefore[r]]_vars

\* C22's case: delete_by_conversation("A") has left a row of conversation "B"
\* and a row of no conversation in the table.
C22_Witness ==
    /\ last[1] = "delete_by_conversation"
    /\ last[2] = <<"A">>
    /\ last[3] = 1
    /\ \E r \in BagToSet(tables[TABLE_NAME]) : r.conversation_id = <<"B">>
    /\ \E r \in BagToSet(tables[TABLE_NAME]) : r.conversation_id = <<>>


\* Document ids with and without quote characters: ab, a'b and a''b.
QuotedIds == {<<"a", "b">>, <<"a", Quote, "b">>, <<"a", Quote, Quote, "b">>}

HasQuote(id) == \E i \in DOMAIN id : id[i] = Quote

\* One caller that adds, looks up, deletes and counts documents of these ids,
\* each call run to completion.
NextQuoted ==
    \/ \E id \in QuotedIds : \E text \in Texts :
          Add(NewDocument(id, text), Embedding(1))
    \/ \E id \in QuotedIds : VectorGet(id)
    \/ \E id \in QuotedIds : VectorDelete(id)
    \/ Count

SpecQuoted == Init /\ [][NextQuoted]_vars

\* A step that is a call of delete, returned or raised, and its argument.
DeleteStep ==
    \/ last'[1] = "delete"
    \/ last'[1] = "raise" /\ last'[2] = "delete"

DeleteArgument == IF last'[1] = "delete" THEN last'[2] ELSE last'[3]

\* What C23 says of a step that is delete(id): the rows of that id are gone,
\* every other row is as it was, and the number of rows has dropped by one
\* if the id was stored and is the same otherwise.
DeletesExactly(id) ==
    /\ last'[1] = "delete"
    /\ WhereId(RowsAfter, id) = EmptyBag
    /\ WhereIdNotIn(RowsAfter, {id}) = WhereIdNotIn(RowsBefore, {id})
    /\ CountRows(RowsAfter) =
          CountRows(RowsBefore) - (IF WhereId(RowsBefore, id) = EmptyBag THEN 0 ELSE 1)

\* The part of C23 that holds: get and delete act on exactly the id they are
\* given when the id has no quote character.
C23_IdsWithoutQuotes ==
    /\ []((last[1] = "get" /\ ~HasQuote(last[2]) /\ last[3] # None) =>
              last[3][1].id = last[2])
    /\ [][(DeleteStep /\ ~HasQuote(DeleteArgument)) =>
              DeletesExactly(DeleteArgument)]_vars

\* C23: get(id) returns only a document whose id is the argument, and
\* delete(id) removes the row of exactly that id and no other row, for every
\* id string, ids with quote characters included; after delete(id) no row of
\* the id is left and the count has dropped by one if the id was stored.
C23_ExactId ==
    /\ []((last[1] = "get" /\ last[3] # None) => last[3][1].id = last[2])
    /\ [][DeleteStep => DeletesExactly(DeleteArgument)]_vars

\* C23's case: delete was called with an id that has quote characters while
\* the table held the rows of two ids with quote characters.
C23_Witness ==
    /\ last[1] = "delete"
    /\ HasQuote(last[2])
    /\ CountRows(tables[TABLE_NAME]) = 2


\* Documents whose optional fields are absent, the empty string or a
\* non-empty string.
WithProject(document, project_path) ==
    [document EXCEPT !.metadata.project_path = project_path]

OptionalStrings == {None, Some(<<>>), Some(<<"/", "p">>)}

MetadataDocuments ==
    {WithProject(WithConversation(NewDocument(id, <<"o", "l", "d">>), c), q) :
        id \in DocIds, c \in OptionalStrings, q \in OptionalStrings}

\* One caller that adds these documents and looks them up, each call run to
\* completion.
NextMetadata ==
    \/ \E document \in MetadataDocuments : \E embedding \in Embeddings :
          Add(document, embedding)
    \/ \E id \in DocIds : VectorGet(id)

SpecMetadata == Init /\ [][NextMetadata]_vars

\* A step that is get(d.id) right after add(d, e) returned.
GetAfterAdd ==
    /\ last[1] = "add"
    /\ last'[1] = "get"
    /\ last'[2] = last[2].id

EmptyOptional(document) ==
    \/ document.metadata.project_path = Some(<<>>)
    \/ document.metadata.conversation_id = Some(<<>>)

\* The part of C24 that holds: add(d, e) followed by get(d.id) returns d
\* when no optional field of d is the empty string.
C24_RoundTripNonEmpty ==
    [][(GetAfterAdd /\ ~EmptyOptional(last[2])) => last'[3] = Some(last[2])]_vars

\* C24: add(d, e) followed by get(d.id) returns a document with the id, text,
\* source, project_path, conversation_id, chunk_index, created_at and extra
\* of d, whether its optional fields are absent, the empty string or
\* non-empty.
C24_RoundTrip ==
    [][GetAfterAdd => last'[3] = Some(last[2])]_vars

\* C24's case: get returned the document that was just added with a
\* project_path and without a conversation_id.
C24_Witness ==
    /\ last[1] = "get"
    /\ last[3] # None
    /\ last[3][1].metadata.project_path = Some(<<"/", "p">>)
    /\ last[3][1].metadata.conversation_id = None


\* C25: add_batch with len(documents) # len(embeddings) fails with
\* ValueError and writes nothing: add_batch returns only when it was given as
\* many documents as embeddings, and when it raises ValueError the rows of
\* the table are as they were, so no document of the call has become
\* retrievable.
C25_MismatchedBatch ==
    /\ [](last[1] = "add_batch" => last[2] = Len(last[3]))
    /\ [][last' = <<"raise", "ValueError">> => RowsAfter = RowsBefore]_vars

\* C25's case: add_batch has raised ValueError on a table that holds rows.
C25_Witness ==
    /\ last = <<"raise", "ValueError">>
    /\ CountRows(tables[TABLE_NAME]) >= 1

\* Embeddings of the configured dimension, of one less and of one more.
Sized(n, x) == [i \in 1..n |-> IF i = 1 THEN x ELSE 0]

SizedEmbeddings == {Sized(n, 1) : n \in (Dimension - 1)..(Dimension + 1)}

\* The store is constructed over a directory without a table, or over one
\* where a store of another dimension has created the table and written a
\* row.
InitDimension ==
    /\ Stored({})
    /\ db = None
    /\ connections = {}
    /\ proc = [p \in Callers |-> Idle]
    /\ hist = [id \in AllIds |-> <<"none">>]
    /\ \/ /\ tables = <<>>
          /\ schema = <<>>
       \/ /\ tables = [n \in {TABLE_NAME} |->
                         SetToBag({DataRow(NewDocument(<<"d", "0">>, <<"o", "l", "d">>),
                                           Sized(Dimension + 1, 1))})]
          /\ schema = [n \in {TABLE_NAME} |-> Dimension + 1]
    /\ conn = Disconnected
    /\ last = <<"none">>
    /\ written = [id \in DocIds |-> None]
    /\ scope = Outside
    /\ settings = None

\* One caller that adds documents with embeddings of any of these sizes,
\* each call run to completion.
NextDimension ==
    \/ \E document \in Documents : \E embedding \in SizedEmbeddings :
          Add(document, embedding)
    \/ \E documents \in Batches(Documents) :
          \E embeddings \in Batches(SizedEmbeddings) :
              AddBatch(documents, embeddings)
    \/ \E id \in DocIds : VectorGet(id)
    \/ VectorClose

SpecDimension == InitDimension /\ [][NextDimension]_vars

\* What C26 says of a step that is add or add_batch: it returns only when
\* every embedding has the configured dimension, and when it raises the rows
\* are as they were.
RejectsOtherDimensions ==
    /\ last'[1] = "add" => last'[3] = Dimension
    /\ last'[1] = "add_batch" =>
          \A i \in DOMAIN last'[3] : last'[3][i] = Dimension
    /\ last'[1] = "raise" => RowsAfter = RowsBefore

\* The vectors of the table all have the list size of its vector column, and
\* that size never changes once the table is there.
VectorSizeFixed ==
    /\ [](TABLE_NAME \in DOMAIN tables =>
             \A r \in BagToSet(tables[TABLE_NAME]) :
                 Len(r.vector) = schema[TABLE_NAME])
    /\ [][(TABLE_NAME \in DOMAIN schema) => schema' = schema]_vars

\* The part of C26 that holds: in a table this store has created, or that
\* was created with the same dimension, an embedding of another length is
\* rejected and nothing is written; and the size of the vectors of a table
\* never changes.
C26_OwnTable ==
    /\ VectorSizeFixed
    /\ [][EnsureSchema[TABLE_NAME] = Dimension => RejectsOtherDimensions]_vars

\* C26: add or add_batch with an embedding whose length differs from the
\* store's configured dimension fails and writes no row; the dimension of
\* the store and of the vectors in its table never changes.
C26_DimensionFixed ==
    /\ VectorSizeFixed
    /\ [][RejectsOtherDimensions]_vars

\* C26's case: add has raised for an embedding of another length on a table
\* that holds rows of the configured dimension.
C26_Witness ==
    /\ last = <<"raise", "add">>
    /\ schema[TABLE_NAME] = Dimension
    /\ CountRows(tables[TABLE_NAME]) >= 1


\* The steps of save and of get, and the return of a finished call.
SaveOrGetStep(p) ==
    \/ SaveBegin(p) \/ SaveOpen(p) \/ SaveWrite(p) \/ SaveRename(p)
    \/ SaveExecute(p) \/ SaveCommit(p) \/ SaveReturn(p)
    \/ GetExists(p) \/ GetRead(p)
    \/ Return(p)

\* One caller of both stores that saves, adds, looks up and closes, each call
\* run to completion.
NextClose ==
    \/ \E c \in {BareConversation(MainId), FullConversation(MainId)} : CallSave(1, c)
    \/ CallGet(1, MainId)
    \/ CallClose(1)
    \/ Close(1)
    \/ SaveOrGetStep(1)
    \/ \E document \in Documents : Add(document, Embedding(1))
    \/ \E id \in DocIds : VectorGet(id)
    \/ VectorClose

SpecClose == Init /\ [][NextClose]_vars

\* C27: close() of either store can be called any number of times, also
\* before any other operation, without error, and leaves the store with no
\* connection and what was persisted as it was; an operation after a close
\* connects again and finds the data persisted before the close.
C27_CloseIdempotent ==
    /\ [](\A p \in Callers :
             /\ Done(p, "close") =>
                   /\ proc[p].result = <<"ok">>
                   /\ db = None
                   /\ connections = {}
             /\ Done(p, "get") =>
                   /\ db # None
                   /\ connections = {db[1]}
                   /\ FileExists(proc[p].id) =>
                         proc[p].result = <<"conv", FileRecord(proc[p].id)>>)
    /\ [][\A p \in Callers :
            (proc[p].pc = "close" /\ proc'[p].pc = "done") =>
                /\ files' = files
                /\ committed' = committed
                /\ index' = committed]_vars
    /\ [](last = <<"close">> => conn = Disconnected)
    /\ [](last[1] = "get" =>
             /\ conn = Connected
             /\ written[last[2]] # None =>
                   last[3] = Some(DocumentOfRow(written[last[2]][1])))
    /\ [][last' = <<"close">> => tables' = tables /\ schema' = schema]_vars

\* C27's case: both stores hold data and both have just been closed.
C27_Witness ==
    /\ Done(1, "close")
    /\ FileExists(MainId)
    /\ hist[MainId][1] = "save"
    /\ db = None
    /\ last = <<"close">>
    /\ TABLE_NAME \in DOMAIN tables
    /\ CountRows(tables[TABLE_NAME]) >= 1

\* A get after a close has connected again and returned the saved record.
C27_WitnessReopened ==
    /\ Done(1, "get")
    /\ FileExists(MainId)
    /\ proc[1].result = <<"conv", FileRecord(MainId)>>
    /\ last[1] = "get"
    /\ last[3] # None

\* Callers that issue save and get together; close is called only while no
\* call is in flight.
NextConnect ==
    \/ \E p \in Callers :
          \/ CallSaveConnecting(p, BareConversation(MainId))
          \/ CallGetConnecting(p, MainId)
          \/ InitCheck(p)
          \/ InitConnect(p)
          \/ SaveOrGetStep(p)
          \/ Close(p)
    \/ /\ \A q \in Callers : proc[q].pc = "idle"
       /\ CallClose(1)

SpecConnect == Init /\ [][NextConnect]_vars

\* One caller that issues the same calls one at a time.
NextConnectAlone ==
    \/ CallSaveConnecting(1, BareConversation(MainId))
    \/ CallGetConnecting(1, MainId)
    \/ InitCheck(1)
    \/ InitConnect(1)
    \/ SaveOrGetStep(1)
    \/ CallClose(1)
    \/ Close(1)

SpecConnectAlone == Init /\ [][NextConnectAlone]_vars

\* C28: between construction (or a close) and the next close the store has
\* at most one database connection open, however many callers issue its
\* first operations together; self._db refers to it, and no connection is
\* open that self._db does not refer to.
C28_OneConnection ==
    /\ Cardinality(connections) <= 1
    /\ connections = IF db = None THEN {} ELSE {db[1]}

\* C28's case: two callers have gone through _ensure_initialized and are in
\* their operations.
C28_Witness ==
    /\ NumCallers >= 2
    /\ \A p \in 1..2 : proc[p].pc \in {"save_begin", "get_exists"}
    /\ db # None


\* One caller that saves records, a backdated one among them, marks them
\* indexed and reads them back, each call run to completion.
NextDates ==
    \/ \E c \in {BareConversation(MainId), FullConversation(MainId),
                 BackdatedConversation(MainId)} : CallSave(1, c)
    \/ \E t \in {None, Some(1)} : CallMarkIndexed(1, MainId, t)
    \/ CallGet(1, MainId)
    \/ CallListAll(1, DefaultLimit, 0)
    \/ SaveOrGetStep(1)
    \/ \E utcnow \in Times : MarkExecute(1, utcnow)
    \/ MarkCommit(1)
    \/ ListSelect(1)

SpecDates == InitList /\ [][NextDates]_vars

\* updated_at >= created_at, for a record and for a row of the index.
RecordInOrder(c) == c.updated_at >= c.created_at
RowInOrder(r) == TextLeq(r.created_at, r.updated_at)

\* C29: every conversation held by the store, and every record returned by
\* get or a list operation, has updated_at >= created_at, after any sequence
\* of save and mark_indexed calls.
C29_UpdatedAfterCreated ==
    /\ \A id \in Ids :
          (FileExists(id) /\ IsDocument(files[ConversationPath(id)])) =>
              RecordInOrder(FileRecord(id))
    /\ \A r \in index : RowInOrder(r)
    /\ \A p \in Callers :
          /\ (Done(p, "get") /\ proc[p].result[1] = "conv") =>
                RecordInOrder(proc[p].result[2])
          /\ (proc[p].pc = "done" /\ proc[p].result[1] = "list") =>
                \A i \in DOMAIN proc[p].result[2] :
                    RecordInOrder(proc[p].result[2][i])

\* C29's case: mark_indexed has returned for a saved conversation whose
\* updated_at is later than its created_at.
C29_Witness ==
    /\ Done(1, "mark_indexed")
    /\ FileExists(MainId)
    /\ FileRecord(MainId).indexed_at # None
    /\ FileRecord(MainId).updated_at > FileRecord(MainId).created_at


\* Blocks over embedding providers, one after the other.
NextProvider ==
    \/ \E provider \in Providers : Enter(provider)
    \/ \E r \in Responses(FALSE) : EmbedReturns(r)
    \/ \E r \in Responses(TRUE), caught \in BOOLEAN : EmbedRaises(r, caught)
    \/ \E e \in BodyErrors : BodyRaises(e)
    \/ BodyReturns
    \/ Aexit

SpecProvider == Init /\ [][NextProvider]_vars

\* C30: whenever a provider is used through async with, close() is called
\* exactly once when the block is left, whether the body ends normally or
\* raises (a failing embed included), never while the body runs, and an
\* exception raised in the body reaches the caller of the block.
C30_ClosedOnEveryExit ==
    /\ scope.pc \in {"body", "exit"} => scope.closes = 0
    /\ scope.pc = "left" =>
          /\ scope.closes = 1
          /\ scope.outcome = IF scope.error = None THEN Some(<<"returned">>)
                             ELSE Some(<<"raised", scope.error[1]>>)

\* C30's case: a block was left after one embed returned and the next raised
\* ProviderConnectionError.
C30_Witness ==
    /\ scope.pc = "left"
    /\ scope.embeds = 1
    /\ scope.error = Some("ProviderConnectionError")
    /\ scope.closes = 1


\* The most texts of one embed_batch call.
MaxTexts == 2

AllResponses == Responses(FALSE) \cup Responses(TRUE)

\* The requests of one embed_batch call: none is sent after a failed one.
ResponseLists ==
    {rs \in UNION {[1..n -> AllResponses] : n \in 0..MaxTexts} :
        \A i \in 1..(Len(rs) - 1) : rs[i][1] = "ok"}

\* Providers constructed and used without a block.
NextEmbed ==
    \/ \E provider \in Providers, model \in {None} \cup {Some(m) : m \in Models} :
          Construct(provider, model)
    \/ \E r \in AllResponses : Embed(r)
    \/ \E rs \in ResponseLists : EmbedBatch(rs)
    \/ ProviderClose

SpecEmbed == Init /\ [][NextEmbed]_vars

\* The failure that ended the last call, None if every request was answered.
RECURSIVE FirstFailure(_, _)
FirstFailure(rs, i) ==
    IF i > Len(rs) THEN None
    ELSE IF rs[i][1] = "ok" THEN FirstFailure(rs, i + 1)
    ELSE Some(rs[i][1])

LastFailure == FirstFailure(scope.result[1][2], 1)

\* embed_batch returns one embedding per text or raises: it returns only
\* when every request was answered, and a call with a failed request raises.
C31_NoPartialResult ==
    scope.result # None =>
        LET outcome == scope.result[1][3]
        IN  IF LastFailure = None
            THEN /\ outcome[1] = "returned"
                 /\ scope.result[1][1] = "embed_batch" =>
                       Len(outcome[2]) = Len(scope.result[1][2])
            ELSE outcome[1] = "raised"

\* C31: a failed embed or embed_batch raises ProviderConnectionError when the
\* provider is unreachable and EmbeddingError for every other failure (an
\* error status, a timeout, a malformed response); no other exception
\* escapes, and a failed embed_batch returns nothing.
C31_ErrorTypes ==
    (scope.result # None /\ LastFailure # None) =>
        scope.result[1][3] =
            <<"raised", IF LastFailure[1] = "ConnectError"
                        THEN "ProviderConnectionError" ELSE "EmbeddingError">>

\* C31's case: Ollama's embed_batch failed on its second text.
C31_Witness ==
    /\ scope.provider = Some("ollama")
    /\ scope.result # None
    /\ scope.result[1][1] = "embed_batch"
    /\ Len(scope.result[1][2]) = 2
    /\ scope.result[1][2][1][1] = "ok"
    /\ LastFailure # None

NextFactory ==
    \/ \E s \in AllSettings : NewSettings(s)
    \/ \E value \in Providers : SetAttr("embedding_provider", value)
    \/ \E field \in {"anthropic_api_key", "openai_api_key"}, value \in ApiKeys :
          SetAttr(field, value)
    \/ \E installed \in SUBSET Packages : CreateEmbeddingProvider(installed)

SpecFactory == Init /\ [][NextFactory]_vars

FactoryCalled ==
    /\ scope.result # None
    /\ scope.result[1][1] = "create_embedding_provider"

\* The key and the package of a remote variant.
KeyOf(s) ==
    IF s.embedding_provider = "anthropic" THEN s.anthropic_api_key
    ELSE s.openai_api_key

PackageOf(s) ==
    IF s.embedding_provider = "anthropic" THEN "voyageai" ELSE "openai"

\* C32: create_embedding_provider returns the variant named by
\* settings.embedding_provider; for a remote variant whose key is missing or
\* empty it raises an error that names the key before any provider is
\* constructed, also for settings changed after their validation; the local
\* variant needs no key. (A remote variant whose package is not installed
\* raises ProviderNotAvailableError from its constructor.)
C32_Factory ==
    FactoryCalled =>
        LET s == scope.result[1][2]
            installed == scope.result[1][3]
            outcome == scope.result[1][4]
            constructed == scope.result[1][5]
        IN  /\ outcome[1] = "returned" =>
                  /\ outcome[2] = s.embedding_provider
                  /\ scope.provider = Some(s.embedding_provider)
            /\ s.embedding_provider = "ollama" => outcome[1] = "returned"
            /\ s.embedding_provider # "ollama" =>
                  IF KeyOf(s) \in {None, Some("")}
                  THEN /\ outcome[1] = "raised"
                       /\ outcome[2] = "ValueError"
                       /\ ~constructed
                  ELSE PackageOf(s) \in installed => outcome[1] = "returned"

\* C32's case: settings validated for Ollama were changed to OpenAI with an
\* empty key, and the factory raised.
C32_Witness ==
    /\ FactoryCalled
    /\ scope.result[1][2].embedding_provider = "openai"
    /\ scope.result[1][2].openai_api_key = Some("")
    /\ scope.result[1][4][1] = "raised"
    /\ settings # None
    /\ ~ValidateApiKeys(settings[1])


\* One caller, every call run alone and to completion, on ids with and
\* without separators: "ab/c" can be saved once the directory of "ab1" is
\* there.
AliasIds == {DotId, DotSlashId}

NextPaths ==
    \/ \E id \in AllIds \ {OtherId, ThirdId} : CallSave(1, BareConversation(id))
    \/ CallSave(1, FullConversation(DotSlashId))
    \/ \E id \in AliasIds \cup {NestedId} : CallGet(1, id)
    \/ \E id \in AliasIds : CallDelete(1, id)
    \/ \E id \in AliasIds : CallMarkIndexed(1, id, Some(1))
    \/ Step(1)

SpecPaths == Init /\ [][NextPaths]_vars

\* Whether the caller is in a save, a delete or a mark_indexed of an id
\* other than id.
MutatesOther(id) ==
    /\ InFlight(1)
    /\ proc[1].call[1] \in {"save", "delete", "mark_indexed"}
    /\ proc[1].id # id

\* The steps of a save, delete or mark_indexed leave the file and the rows of
\* every id whose content file is at another path as they were.
C39_OtherPathsStay ==
    [][\A id \in AllIds :
          (MutatesOther(id) /\ ConversationPath(id) # ConversationPath(proc[1].id))
             => Snapshot(id)' = Snapshot(id)]_vars

\* C39: save, delete and mark_indexed change only the file and the row of
\* their own id: the content file and the index row of every other id (and so
\* the result of get) stay as they were, distinct ids having distinct paths.
C39_OtherIdsStay ==
    [][\A id \in AllIds : MutatesOther(id) => Snapshot(id)' = Snapshot(id)]_vars

\* Distinct ids have distinct content-file paths.
C39_DistinctPaths ==
    \A id, other \in AllIds :
        id # other => ConversationPath(id) # ConversationPath(other)

\* C39's case: a save of ".//q" has returned, and at its call the file of
\* "./q" was stored.
C39_Witness ==
    /\ Done(1, "save")
    /\ proc[1].id = DotSlashId
    /\ proc[1].pre.file # None
    /\ proc[1].pre.rows = {}
    /\ RowsOf(index, DotId) # {}

\* Whether the content file of id is there and holds a record of id.
HasShardFile(id) ==
    /\ FileExists(id)
    /\ IsDocument(files[ConversationPath(id)])
    /\ FileRecord(id).id = id

\* Every file is a whole document, the ids with an index row are the ids
\* with a content file, and each row is the row of the record in the file.
IndexMatchesFiles ==
    /\ \A path \in DOMAIN files : IsDocument(files[path])
    /\ \A id \in AllIds :
          /\ HasShardFile(id) <=> RowsOf(index, id) # {}
          /\ HasShardFile(id) =>
                \A r \in RowsOf(index, id) :
                    LET c == FileRecord(id)
                    IN  /\ r.source = c.source
                        /\ r.project_path = c.project_path
                        /\ r.created_at = IsoFormat(c.created_at)
                        /\ r.updated_at = IsoFormat(c.updated_at)
                        /\ r.indexed_at = IF c.indexed_at = None THEN None
                                          ELSE Some(IsoFormat(c.indexed_at[1]))
                        /\ r.title = c.title
                        /\ r.message_count = Len(c.messages)

\* C34: after any sequence of save, delete and mark_indexed calls run one at
\* a time and to completion, the ids with an index row are the ids with a
\* shard file, and the source, project_path, created_at, updated_at,
\* indexed_at, title and message_count of each row are those of the record in
\* the file.
C34_IndexMatchesFiles == Quiescent => IndexMatchesFiles

\* C34's case: a mark_indexed has returned for a stored conversation that
\* has messages.
C34_Witness ==
    /\ Done(1, "mark_indexed")
    /\ proc[1].pre.file # None
    /\ FileExists(proc[1].id)
    /\ FileRecord(proc[1].id).indexed_at = Some(1)
    /\ Len(FileRecord(proc[1].id).messages) = 2


\* The store holds the bare record of MainId, or nothing.
InitRaces ==
    /\ \E convs \in SUBSET {BareConversation(MainId)} : Stored(convs)
    /\ db = None
    /\ connections = {}
    /\ proc = [p \in Callers |-> Idle]
    /\ hist = [id \in AllIds |-> <<"none">>]
    /\ tables = <<>>
    /\ schema = <<>>
    /\ conn = Disconnected
    /\ last = <<"none">>
    /\ written = [id \in DocIds |-> None]
    /\ scope = Outside
    /\ settings = None

\* Two coroutines of one process: the first marks, saves, gets or lists, the
\* second deletes, each with one call on MainId, their steps interleaved.
NextRaces ==
    \/ \E t \in {None, Some(1)} : CallMarkIndexed(1, MainId, t)
    \/ CallSave(1, FullConversation(MainId))
    \/ CallGet(1, MainId)
    \/ \E limit \in Limits : CallListAll(1, limit, 0)
    \/ CallDelete(2, MainId)
    \/ SaveBegin(1) \/ SaveOpen(1) \/ SaveWrite(1) \/ SaveRename(1)
    \/ SaveExecute(1) \/ SaveCommit(1) \/ SaveReturn(1)
    \/ \E utcnow \in Times : MarkExecute(1, utcnow)
    \/ MarkCommit(1)
    \/ ListSelect(1)
    \/ GetExists(1) \/ GetRead(1)
    \/ DeleteExists(2) \/ DeleteUnlink(2) \/ DeleteExecute(2) \/ DeleteCommit(2)

SpecRaces == InitRaces /\ [][NextRaces]_vars

\* C35: when delete(id) completes while a mark_indexed(id) is in progress,
\* the conversation is not recreated: once both have completed (and no save
\* was issued) there is no content file, so get returns not-found, and no
\* index row for id.
C35_NotRecreated ==
    (/\ Done(1, "mark_indexed")
     /\ Done(2, "delete")
     /\ hist[MainId] = <<"mark_indexed">>) => Absent(MainId)

\* C37: for every interleaving of a save and a delete of one id that both
\* run to completion, the content file and the index row of the id are both
\* there or both missing.
C37_SaveDeleteConsistent ==
    (Done(1, "save") /\ Done(2, "delete")) =>
        (FileExists(MainId) <=> RowsOf(index, MainId) # {})

\* C38: a get that runs while the id is deleted returns the record or
\* not-found and raises nothing, and so does a list operation, which fetches
\* each listed id through get.
C38_GetNeverFails ==
    \A p \in Callers :
        (proc[p].pc = "done" /\ proc[p].call[1] \in {"get"} \cup ListCalls)
            => proc[p].result[1] # "raise"

\* A get and the delete of its id have both returned, the delete having
\* found the file.
C38_Witness ==
    /\ Done(1, "get")
    /\ Done(2, "delete")
    /\ proc[2].result = <<"bool", TRUE>>

\* mark_indexed(MainId) on a stored record, and a save of another record of
\* MainId that runs from its call to its return after mark_indexed has read
\* the record and before it writes it again.
InWindow == proc[1].call[1] = "mark_indexed" /\ proc[1].pc = "save_begin"

NextMarkSave ==
    \/ \E t \in {None} \cup {Some(u) : u \in Times} : CallMarkIndexed(1, MainId, t)
    \/ \E utcnow \in Times : MarkExecute(1, utcnow)
    \/ MarkCommit(1) \/ GetExists(1) \/ GetRead(1)
    \/ /\ ~InFlight(2)
       /\ \/ SaveBegin(1) \/ SaveOpen(1) \/ SaveWrite(1) \/ SaveRename(1)
          \/ SaveExecute(1) \/ SaveCommit(1) \/ SaveReturn(1)
    \/ /\ InWindow
       /\ \/ \E c \in {FullConversation(MainId), TupleConversation(MainId)} :
                CallSave(2, c)
          \/ SaveBegin(2) \/ SaveOpen(2) \/ SaveWrite(2) \/ SaveRename(2)
          \/ SaveExecute(2) \/ SaveCommit(2) \/ SaveReturn(2)

SpecMarkSave == InitRaces /\ [][NextMarkSave]_vars

\* C36: when a save(c2) of the same id completes between mark_indexed's read
\* of the record and its re-write, c2 is not lost: after both have completed
\* the stored record holds the messages and the other fields of c2.
C36_SaveNotLost ==
    (Done(1, "mark_indexed") /\ Done(2, "save")) =>
        /\ FileExists(MainId)
        /\ IsDocument(files[ConversationPath(MainId)])
        /\ LET c2 == ModelValidateJson(ModelDumpJson(proc[2].call[2]))
           IN  [FileRecord(MainId) EXCEPT !.indexed_at = None] =
                  [c2 EXCEPT !.indexed_at = None]


\* Several operations issued at once on a new VectorStore whose directory
\* has no table yet: one call for each caller, their steps interleaved.
NextFresh ==
    \E p \in Callers :
        \/ CallCount(p)
        \/ \E document \in Documents : CallAdd(p, document, Embedding(1))
        \/ ConnectCheck(p) \/ Connect(p)
        \/ TableCheck(p) \/ TableNames(p) \/ OpenTable(p) \/ CreateTable(p)
        \/ Operate(p)

SpecFresh == Init /\ [][NextFresh]_vars

\* The callers whose create_table created the table.
Creators == {p \in Callers : \E i \in DOMAIN proc[p].out : proc[p].out[i] = "create_table"}

\* The table is created at most once, and once when an operation has
\* returned.
C40_CreatedOnce ==
    /\ Cardinality(Creators) <= 1
    /\ (\E p \in Callers : proc[p].pc = "done" /\ proc[p].result[1] # "raise")
          => Cardinality(Creators) = 1

\* C40: when several operations are issued at once on a new VectorStore
\* whose table does not exist yet, the table is created exactly once and
\* every operation completes without error.
C40_AllComplete ==
    /\ Cardinality(Creators) <= 1
    /\ \A p \in Callers : proc[p].pc = "done" => proc[p].result[1] # "raise"

\* C40's case: two operations have ended, both having found no table.
C40_Witness ==
    /\ \A p \in Callers : proc[p].pc = "done"
    /\ \A p \in Callers : \E i \in DOMAIN proc[p].out : proc[p].out[i] = "table_names"
    /\ \E p \in Callers : proc[p].call[1] = "add"

====
